---- MODULE Spec2Model ----
(***************************************************************************)
(* Orders, inventory and reviews of the e-commerce core, as a state        *)
(* machine over a document store with multi-document transactions.         *)
(*                                                                         *)
(* The store is MongoDB as the services use it: a write made through a     *)
(* session is buffered in that session's transaction and becomes visible   *)
(* at commitTransaction; a transactional write to a document that another  *)
(* open transaction has written, or that was committed by someone else     *)
(* after this transaction's snapshot, fails with a write conflict and the  *)
(* transaction aborts; a write made without a session is applied at once,  *)
(* and waits while an open transaction holds the document.  A read made    *)
(* without a session sees the committed store.                             *)
(*                                                                         *)
(* Every await of a service method is one step of the calling request, so  *)
(* requests interleave between awaits.                                     *)
(***************************************************************************)
EXTENDS Integers, Sequences, FiniteSets, TLC

\* ------------------------------------------------------------------ bounds
\* Stock is explored between -MaxDebt and MaxStock; a write that would leave
\* that range is not taken.
MaxStock == 2
MaxDebt == 2
\* Orders that may exist, and the largest quantity of a line item or of a
\* stock adjustment.
MaxOrders == 2
MaxQty == 2

Products == {"A", "B"}
MissingProduct == "X"
ProductIds == Products \cup {MissingProduct}
Calls == {"c1", "c2"}
OrderIds == 1..MaxOrders
Prices == {1, 2}

\* Review documents that may exist.
MaxReviews == 2
\* The review schema's bounds on a rating.
MinRating == 1
MaxRating == 5
\* The product schema's upper bound on a rating.
MaxProductRating == 5
ReviewIds == 1..MaxReviews
Users == {"u1", "u2"}
\* Ratings a request carries: two that pass the schema and one that does not.
ReviewRatings == {MinRating, MaxRating - 1}
BadRating == MaxRating + 1
\* A patch field that is absent is falsy: rating 0, comment "".
NoRating == 0
NoComment == ""
\* The price a caller puts into a request's line item.
CallerPrice == 9

\* ------------------------------------------------------------------ types
Statuses == {"pending", "processing", "shipped", "delivered", "cancelled"}
\* A patch that carries no status.
KeepStatus == "keep"

NoOrder == [items |-> <<>>, total |-> 0, status |-> "none"]

NoReview == [user |-> "none", product |-> MissingProduct, rating |-> NoRating,
             comment |-> NoComment]

Item(p, q, pr) == [product |-> p, quantity |-> q, price |-> pr]

\* Requests of one line item on product A or on a product that does not exist.
StockRequests ==
    {<<Item("A", q, CallerPrice)>> : q \in 1..MaxQty}
    \cup {<<Item(MissingProduct, 1, CallerPrice)>>}

\* Requests of one or two line items over both products; a quantity of 0
\* fails the order schema's validator.
AtomicRequests ==
    {<<Item("A", 1, CallerPrice)>>, <<Item("A", 0, CallerPrice)>>,
     <<Item("A", 1, CallerPrice), Item("B", 1, CallerPrice)>>,
     <<Item("B", 1, CallerPrice), Item("A", 1, CallerPrice)>>}

\* ------------------------------------------------------------------ SKU
\* A product name is a sequence of characters; a SKU is a prefix of three
\* characters and the number its suffix prints.
MaxCatalog == 4
CatalogIds == 1..MaxCatalog
PrefixLen == 3
PadChar == "X"
Names == {<<>>, <<"a", "b", "c", "d">>, <<"A", "b", "c">>, <<"a", "1", "b", "c">>, <<"1", "b">>}

NoSku == [prefix |-> <<>>, n |-> 0]

\* String.prototype.toUpperCase on one character.
ToUpperCase(ch) ==
    CASE ch = "a" -> "A"
      [] ch = "b" -> "B"
      [] ch = "c" -> "C"
      [] ch = "d" -> "D"
      [] OTHER -> ch

UpperLetters == {"A", "B", "C", "D", PadChar}

\* .replace(/[^A-Z]/g, ''): the characters that are not in A-Z are dropped.
RECURSIVE OnlyLetters(_)
OnlyLetters(s) ==
    IF s = <<>> THEN <<>>
    ELSE IF Head(s) \in UpperLetters
    THEN <<Head(s)>> \o OnlyLetters(Tail(s))
    ELSE OnlyLetters(Tail(s))

\* .padEnd(3, 'X').
RECURSIVE PadEnd(_)
PadEnd(s) == IF Len(s) >= PrefixLen THEN s ELSE PadEnd(Append(s, PadChar))

\* name.substring(0, 3).toUpperCase().replace(/[^A-Z]/g, '').padEnd(3, 'X').
Prefix(name) ==
    LET cut == SubSeq(name, 1, IF Len(name) < PrefixLen THEN Len(name) ELSE PrefixLen)
        upper == [i \in 1..Len(cut) |-> ToUpperCase(cut[i])]
    IN  PadEnd(OnlyLetters(upper))

\* `${prefix}${suffix}` with suffix = (count + 1) padded to four digits.
GenerateSKU(name, count) == [prefix |-> Prefix(name), n |-> count + 1]

\* The products A and B were created first, in this order, by
\* ProductService.create.
InitialCatalog ==
    [i \in CatalogIds |->
        CASE i = 1 -> GenerateSKU(<<"a", "b", "c", "d">>, 0)
          [] i = 2 -> GenerateSKU(<<"1", "b">>, 1)
          [] OTHER -> NoSku]

VARIABLES
    stock,      \* Product.stock, committed
    price,      \* Product.price, committed
    orders,     \* the orders collection, committed: OrderIds -> order or NoOrder
    reviews,    \* the reviews collection, committed: ReviewIds -> review or NoReview
    rating,     \* Product.rating, committed, as an exact fraction
    reviewCount, \* Product.reviewCount, committed
    call,       \* each request in flight: its method, arguments, locals, position
    txn,        \* each request's session: its open transaction's buffered writes
    catalog     \* Product.sku of the products collection: CatalogIds -> SKU or NoSku

vars == <<stock, price, orders, reviews, rating, reviewCount, call, txn, catalog>>

\* ------------------------------------------------------------------ helpers
RECURSIVE SumItems(_)
SumItems(items) ==
    IF items = <<>> THEN 0
    ELSE Head(items).price * Head(items).quantity + SumItems(Tail(items))

\* Total quantity the entries hold of product p.
RECURSIVE QtySum(_, _)
QtySum(items, p) ==
    IF items = <<>> THEN 0
    ELSE (IF Head(items).product = p THEN Head(items).quantity ELSE 0)
         + QtySum(Tail(items), p)

\* Ratings are fractions num/den in lowest terms, den >= 1.
Abs(n) == IF n < 0 THEN 0 - n ELSE n

RECURSIVE GCD(_, _)
GCD(a, b) == IF b = 0 THEN a ELSE GCD(b, a % b)

Frac(n, d) ==
    LET g == GCD(Abs(n), d)
    IN  [num |-> n \div g, den |-> d \div g]

Zero == Frac(0, 1)
\* r * k, r + i and r / k for a fraction r and integers k, i (k > 0 in r / k).
FracTimes(r, k) == Frac(r.num * k, r.den)
FracPlus(r, i) == Frac(r.num + i * r.den, r.den)
FracOver(r, k) == IF k < 0 THEN Frac(0 - r.num, r.den * (0 - k)) ELSE Frac(r.num, r.den * k)

\* The product schema's validators on rating: min 0, max 5.
RatingInRange(r) == r.num >= 0 /\ r.num <= MaxProductRating * r.den

\* n || 1
OrOne(n) == IF n = 0 THEN 1 ELSE n

StockOK(s) == s \in (0 - MaxDebt)..MaxStock

ZeroInc == [p \in Products |-> 0]

NoReviewPut == [kind |-> "none", rid |-> 0, rec |-> NoReview]
NoProductPut == [kind |-> "none", product |-> MissingProduct, rating |-> Zero,
                 inc |-> 0, reset |-> FALSE]

NoTxn == [active |-> FALSE, snap |-> FALSE, staleP |-> {}, staleO |-> {},
          staleR |-> {}, staleK |-> {},
          lockP |-> {}, lockO |-> {}, lockR |-> {}, lockK |-> {}, inc |-> ZeroInc,
          put |-> [kind |-> "none", oid |-> 0, rec |-> NoOrder, status |-> KeepStatus],
          rput |-> NoReviewPut, pput |-> NoProductPut]

IdleCall == [pc |-> "idle", op |-> "none", items |-> <<>>, todo |-> {},
             oid |-> 0, oids |-> {}, status |-> KeepStatus,
             product |-> MissingProduct, delta |-> 0, result |-> "none",
             user |-> "none", rid |-> 0, rating |-> NoRating, comment |-> NoComment,
             oldRating |-> NoRating, prodRating |-> Zero, prodCount |-> 0,
             newStock |-> 0,
             session |-> FALSE, starts |-> 0, commits |-> 0, aborts |-> 0,
             ended |-> 0, fnEnd |-> "", thrown |-> "",
             logger |-> "", sink |-> "", hasUser |-> FALSE, logged |-> FALSE,
             name |-> <<>>, sku |-> NoSku]

\* Documents another open transaction has written.
LockedP(c) == UNION {txn[d].lockP : d \in Calls \ {c}}
LockedO(c) == UNION {txn[d].lockO : d \in Calls \ {c}}
AllLockedP == UNION {txn[d].lockP : d \in Calls}
AllLockedO == UNION {txn[d].lockO : d \in Calls}
\* Reviews, and keys of the unique index on (user, product), another open
\* transaction has written.
LockedR(c) == UNION {txn[d].lockR : d \in Calls \ {c}}
LockedK(c) == UNION {txn[d].lockK : d \in Calls \ {c}}

\* A committed write to products P and orders O is newer than the snapshot of
\* every transaction that has one.
Touch(t, P, O) ==
    [d \in Calls |->
        IF t[d].snap
        THEN [t[d] EXCEPT !.staleP = @ \cup P, !.staleO = @ \cup O]
        ELSE t[d]]

TouchReviews(t, R, K) ==
    [d \in Calls |->
        IF t[d].snap
        THEN [t[d] EXCEPT !.staleR = @ \cup R, !.staleK = @ \cup K]
        ELSE t[d]]

\* The request ends with result res: it returns, or throws, after endSession.
Finish(c, res) == [call EXCEPT ![c].pc = "done", ![c].result = res]

\* finally { await session.endSession() }: the request of the order service
\* ends its session and returns or throws res.
EndSession(c, res) ==
    [call EXCEPT ![c].pc = "done", ![c].result = res, ![c].session = FALSE,
                 ![c].ended = @ + 1]

\* catch (error) { await session.abortTransaction(); throw error }, then the
\* finally block.
AbortAndEnd(c, res) ==
    [EndSession(c, res) EXCEPT ![c].aborts = @ + 1]

\* await session.commitTransaction(), then the read of the result and the
\* finally block.
CommitAndEnd(c, res) ==
    [EndSession(c, res) EXCEPT ![c].commits = @ + 1]

\* An order id no committed order and no open transaction uses.
FreeIds(c) ==
    {o \in OrderIds :
        /\ orders[o] = NoOrder
        /\ \A d \in Calls \ {c} : txn[d].put.kind = "insert" => txn[d].put.oid # o}

\* ------------------------------------------------------------------ Init
Init ==
    /\ stock = [p \in Products |-> MaxStock]
    /\ price = [p \in Products |-> 1]
    /\ orders = [o \in OrderIds |-> NoOrder]
    /\ reviews = [r \in ReviewIds |-> NoReview]
    /\ rating = [p \in Products |-> Zero]
    /\ reviewCount = [p \in Products |-> 0]
    /\ call = [c \in Calls |-> IdleCall]
    /\ txn = [c \in Calls |-> NoTxn]
    /\ catalog = InitialCatalog

\* ------------------------------------------------------------------ createOrder
\* OrderService.createOrder is entered: the session is opened.
CreateOrderBegin(c, items) ==
    /\ call[c].pc = "idle"
    /\ Cardinality({o \in OrderIds : orders[o] # NoOrder})
         + Cardinality({d \in Calls : call[d].op = "createOrder"
                                        /\ call[d].pc # "done"}) < MaxOrders
    /\ call' = [call EXCEPT ![c] = [IdleCall EXCEPT !.pc = "co_validate",
                    !.op = "createOrder", !.items = items, !.session = TRUE,
                    !.todo = 1..Len(items)]]
    /\ UNCHANGED <<stock, price, orders, txn, reviews, rating, reviewCount, catalog>>

\* The validation that reserves as it goes: an item that passes its stock
\* check is decremented at once, without the session.
CreateOrderValidateReserve(c, i) ==
    /\ call[c].pc = "co_validate"
    /\ i \in call[c].todo
    /\ LET item == call[c].items[i]
           left == call[c].todo \ {i}
       IN  IF item.product \notin Products
           THEN call' = Finish(c, "NotFound") /\ UNCHANGED <<stock, txn>>
           ELSE IF stock[item.product] < item.quantity
           THEN call' = Finish(c, "InsufficientStock") /\ UNCHANGED <<stock, txn>>
           ELSE /\ item.product \notin AllLockedP
                /\ stock' = [stock EXCEPT ![item.product] = @ - item.quantity]
                /\ txn' = Touch(txn, {item.product}, {})
                /\ call' = [call EXCEPT ![c].items[i].price = price[item.product],
                               ![c].todo = left,
                               ![c].pc = IF left = {} THEN "co_create" ELSE "co_validate"]
    /\ UNCHANGED <<price, orders, reviews, rating, reviewCount, catalog>>

\* The validation that keeps the unit price the caller sent.
CreateOrderValidateCallerPrice(c, i) ==
    /\ call[c].pc = "co_validate"
    /\ i \in call[c].todo
    /\ LET item == call[c].items[i]
           left == call[c].todo \ {i}
       IN  call' =
             IF item.product \notin Products
             THEN Finish(c, "NotFound")
             ELSE IF stock[item.product] < item.quantity
             THEN Finish(c, "InsufficientStock")
             ELSE [call EXCEPT ![c].todo = left,
                               ![c].pc = IF left = {} THEN "co_create" ELSE "co_validate"]
    /\ UNCHANGED <<stock, price, orders, txn, reviews, rating, reviewCount, catalog>>

\* One of the product reads of the validation: productService.findById without
\* the session, then the two checks, then the price snapshot.
CreateOrderValidate(c, i) ==
    /\ call[c].pc = "co_validate"
    /\ i \in call[c].todo
    /\ LET item == call[c].items[i]
           left == call[c].todo \ {i}
       IN  call' =
             IF item.product \notin Products
             THEN EndSession(c, "NotFound")
             ELSE IF stock[item.product] < item.quantity
             THEN EndSession(c, "InsufficientStock")
             ELSE [call EXCEPT ![c].items[i].price = price[item.product],
                               ![c].todo = left,
                               ![c].pc = IF left = {} THEN "co_create" ELSE "co_validate"]
    /\ UNCHANGED <<stock, price, orders, txn, reviews, rating, reviewCount, catalog>>

\* startTransaction, then super.create with the session: the schema's
\* validators run (quantity >= 1), and the insert is buffered.
CreateOrderInsert(c) ==
    /\ call[c].pc = "co_create"
    /\ FreeIds(c) # {}
    /\ LET items == call[c].items
           valid == \A i \in 1..Len(items) : items[i].quantity >= 1
           oid == CHOOSE o \in FreeIds(c) : \A o2 \in FreeIds(c) : o <= o2
           rec == [items |-> items, total |-> SumItems(items), status |-> "pending"]
       IN  IF valid
           THEN /\ txn' = [txn EXCEPT ![c] = [NoTxn EXCEPT !.active = TRUE, !.snap = TRUE,
                              !.put = [kind |-> "insert", oid |-> oid, rec |-> rec,
                                       status |-> "pending"]]]
                /\ call' = [call EXCEPT ![c].pc = "co_inc", ![c].oid = oid,
                                        ![c].starts = @ + 1,
                                        ![c].todo = 1..Len(items)]
           ELSE /\ txn' = [txn EXCEPT ![c] = NoTxn]
                /\ call' = [AbortAndEnd(c, "ValidationError") EXCEPT ![c].starts = @ + 1]
    /\ UNCHANGED <<stock, price, orders, reviews, rating, reviewCount, catalog>>

\* The decrement issued without the session: it reaches the store at once.
CreateOrderDecrementNoSession(c, i) ==
    /\ call[c].pc = "co_inc"
    /\ i \in call[c].todo
    /\ LET item == call[c].items[i]
       IN  /\ item.product \notin AllLockedP
           /\ StockOK(stock[item.product] - item.quantity)
           /\ stock' = [stock EXCEPT ![item.product] = @ - item.quantity]
           /\ txn' = Touch(txn, {item.product}, {})
           /\ call' = [call EXCEPT ![c].todo = @ \ {i},
                          ![c].pc = IF call[c].todo = {i} THEN "co_commit" ELSE "co_inc"]
    /\ UNCHANGED <<price, orders, reviews, rating, reviewCount, catalog>>

\* The decrement with its rejection swallowed: a write conflict is ignored and
\* the request goes on to the next item.
CreateOrderDecrementSwallow(c, i) ==
    /\ call[c].pc = "co_inc"
    /\ i \in call[c].todo
    /\ LET item == call[c].items[i]
       IN  /\ txn' = IF item.product \in LockedP(c) \cup txn[c].staleP
                     THEN txn
                     ELSE [txn EXCEPT ![c].inc[item.product] = @ - item.quantity,
                                      ![c].lockP = @ \cup {item.product}]
           /\ call' = [call EXCEPT ![c].todo = @ \ {i},
                          ![c].pc = IF call[c].todo = {i} THEN "co_commit" ELSE "co_inc"]
    /\ UNCHANGED <<stock, price, orders, reviews, rating, reviewCount, catalog>>

\* productService.update(product, {$inc: {stock: -quantity}}, {session}): one of
\* the decrements of the Promise.all; a write conflict rejects it, and the
\* catch block aborts the transaction and rethrows.
CreateOrderDecrement(c, i) ==
    /\ call[c].pc = "co_inc"
    /\ i \in call[c].todo
    /\ LET item == call[c].items[i]
       IN  IF item.product \in LockedP(c) \cup txn[c].staleP
           THEN /\ txn' = [txn EXCEPT ![c] = NoTxn]
                /\ call' = AbortAndEnd(c, "WriteConflict")
           ELSE /\ txn' = [txn EXCEPT ![c].inc[item.product] = @ - item.quantity,
                                      ![c].lockP = @ \cup {item.product}]
                /\ call' = [call EXCEPT ![c].todo = @ \ {i},
                               ![c].pc = IF call[c].todo = {i} THEN "co_commit" ELSE "co_inc"]
    /\ UNCHANGED <<stock, price, orders, reviews, rating, reviewCount, catalog>>

\* commitTransaction: the buffered writes reach the store together.
CommitWrites(c) ==
    LET t == txn[c]
        newStock == [p \in Products |-> stock[p] + t.inc[p]]
    IN  /\ \A p \in Products : StockOK(newStock[p])
        /\ stock' = newStock
        /\ orders' = CASE t.put.kind = "insert" -> [orders EXCEPT ![t.put.oid] = t.put.rec]
                       [] t.put.kind = "status" ->
                            [orders EXCEPT ![t.put.oid].status =
                                IF t.put.status = KeepStatus THEN @ ELSE t.put.status]
                       [] OTHER -> orders
        /\ reviews' = CASE t.rput.kind \in {"insert", "update"} ->
                            [reviews EXCEPT ![t.rput.rid] = t.rput.rec]
                        [] t.rput.kind = "delete" ->
                            [reviews EXCEPT ![t.rput.rid] = NoReview]
                        [] OTHER -> reviews
        /\ rating' = IF t.pput.kind = "write"
                      THEN [rating EXCEPT ![t.pput.product] = t.pput.rating]
                      ELSE rating
        /\ reviewCount' = IF t.pput.kind = "write"
                           THEN [reviewCount EXCEPT ![t.pput.product] =
                                    IF t.pput.reset THEN 0 ELSE @ + t.pput.inc]
                           ELSE reviewCount
        /\ txn' = TouchReviews(Touch([txn EXCEPT ![c] = NoTxn], t.lockP, t.lockO),
                                t.lockR, t.lockK)
        /\ UNCHANGED <<price, catalog>>

CreateOrderCommit(c) ==
    /\ call[c].pc = "co_commit"
    /\ CommitWrites(c)
    /\ call' = CommitAndEnd(c, "ok")

\* The request returns (or throws) to its caller; the session was ended.
Return(c) ==
    /\ call[c].pc = "done"
    /\ call' = [call EXCEPT ![c] = IdleCall]
    /\ UNCHANGED <<stock, price, orders, txn, reviews, rating, reviewCount, catalog>>

\* ------------------------------------------------------------------ cancelOrder
\* OrderService.cancelOrder is entered: session opened, transaction started.
CancelOrderBegin(c, oid) ==
    /\ call[c].pc = "idle"
    /\ call' = [call EXCEPT ![c] = [IdleCall EXCEPT !.pc = "ca_read",
                    !.op = "cancelOrder", !.oid = oid,
                    !.session = TRUE, !.starts = 1]]
    /\ UNCHANGED <<stock, price, orders, txn, reviews, rating, reviewCount, catalog>>

\* this.findById(id), without the session, and the status check.
CancelOrderRead(c) ==
    /\ call[c].pc = "ca_read"
    /\ LET order == orders[call[c].oid]
       IN  call' =
             IF order = NoOrder
             THEN AbortAndEnd(c, "NotFound")
             ELSE IF order.status # "pending" /\ order.status # "processing"
             THEN AbortAndEnd(c, "InvalidState")
             ELSE [call EXCEPT ![c].items = order.items,
                               ![c].todo = 1..Len(order.items),
                               ![c].pc = "ca_inc"]
    /\ UNCHANGED <<stock, price, orders, txn, reviews, rating, reviewCount, catalog>>

\* The restore issued without the session: it reaches the store at once.
CancelOrderRestoreNoSession(c, i) ==
    /\ call[c].pc = "ca_inc"
    /\ i \in call[c].todo
    /\ LET item == call[c].items[i]
       IN  /\ item.product \notin AllLockedP
           /\ StockOK(stock[item.product] + item.quantity)
           /\ stock' = [stock EXCEPT ![item.product] = @ + item.quantity]
           /\ txn' = Touch(txn, {item.product}, {})
           /\ call' = [call EXCEPT ![c].todo = @ \ {i},
                          ![c].pc = IF call[c].todo = {i} THEN "ca_update" ELSE "ca_inc"]
    /\ UNCHANGED <<price, orders, reviews, rating, reviewCount, catalog>>

\* The restore that puts back one unit per line item instead of its quantity.
CancelOrderRestoreOne(c, i) ==
    /\ call[c].pc = "ca_inc"
    /\ i \in call[c].todo
    /\ LET item == call[c].items[i]
       IN  IF item.product \in LockedP(c) \cup txn[c].staleP
           THEN /\ txn' = [txn EXCEPT ![c] = NoTxn]
                /\ call' = Finish(c, "WriteConflict")
           ELSE /\ txn' = [txn EXCEPT ![c].active = TRUE, ![c].snap = TRUE,
                                      ![c].inc[item.product] = @ + 1,
                                      ![c].lockP = @ \cup {item.product}]
                /\ call' = [call EXCEPT ![c].todo = @ \ {i},
                               ![c].pc = IF call[c].todo = {i} THEN "ca_update" ELSE "ca_inc"]
    /\ UNCHANGED <<stock, price, orders, reviews, rating, reviewCount, catalog>>

\* productService.update(product, {$inc: {stock: quantity}}, {session}).
CancelOrderRestore(c, i) ==
    /\ call[c].pc = "ca_inc"
    /\ i \in call[c].todo
    /\ LET item == call[c].items[i]
       IN  IF item.product \in LockedP(c) \cup txn[c].staleP
           THEN /\ txn' = [txn EXCEPT ![c] = NoTxn]
                /\ call' = AbortAndEnd(c, "WriteConflict")
           ELSE /\ txn' = [txn EXCEPT ![c].active = TRUE, ![c].snap = TRUE,
                                      ![c].inc[item.product] = @ + item.quantity,
                                      ![c].lockP = @ \cup {item.product}]
                /\ call' = [call EXCEPT ![c].todo = @ \ {i},
                               ![c].pc = IF call[c].todo = {i} THEN "ca_update" ELSE "ca_inc"]
    /\ UNCHANGED <<stock, price, orders, reviews, rating, reviewCount, catalog>>

\* super.update(id, {status: cancelled, cancelledAt}, {session}).
CancelOrderUpdate(c) ==
    /\ call[c].pc = "ca_update"
    /\ LET oid == call[c].oid
       IN  IF oid \in LockedO(c) \cup txn[c].staleO
           THEN /\ txn' = [txn EXCEPT ![c] = NoTxn]
                /\ call' = AbortAndEnd(c, "WriteConflict")
           ELSE /\ txn' = [txn EXCEPT ![c].active = TRUE, ![c].snap = TRUE,
                                      ![c].lockO = @ \cup {oid},
                                      ![c].put = [kind |-> "status", oid |-> oid,
                                                  rec |-> NoOrder, status |-> "cancelled"]]
                /\ call' = [call EXCEPT ![c].pc = "ca_commit"]
    /\ UNCHANGED <<stock, price, orders, reviews, rating, reviewCount, catalog>>

CancelOrderCommit(c) ==
    /\ call[c].pc = "ca_commit"
    /\ CommitWrites(c)
    /\ call' = CommitAndEnd(c, "ok")

\* ------------------------------------------------------------------ updateOrder
\* OrderService.updateOrder is entered with the status the patch carries, or
\* KeepStatus for a patch of the other fields only.
UpdateOrderBegin(c, oid, st) ==
    /\ call[c].pc = "idle"
    /\ call' = [call EXCEPT ![c] = [IdleCall EXCEPT !.pc = "uo_update",
                    !.op = "updateOrder", !.oid = oid, !.status = st,
                    !.session = TRUE]]
    /\ UNCHANGED <<stock, price, orders, txn, reviews, rating, reviewCount, catalog>>

\* startTransaction, then super.update(id, data, {session}): null is the
\* abort-and-return-null path.
UpdateOrderWrite(c) ==
    /\ call[c].pc = "uo_update"
    /\ LET oid == call[c].oid
       IN  IF orders[oid] = NoOrder
           THEN /\ txn' = [txn EXCEPT ![c] = NoTxn]
                /\ call' = [AbortAndEnd(c, "null") EXCEPT ![c].starts = @ + 1]
           ELSE IF oid \in LockedO(c)
           THEN /\ txn' = [txn EXCEPT ![c] = NoTxn]
                /\ call' = [AbortAndEnd(c, "WriteConflict") EXCEPT ![c].starts = @ + 1]
           ELSE /\ txn' = [txn EXCEPT ![c] = [NoTxn EXCEPT !.active = TRUE, !.snap = TRUE,
                              !.lockO = {oid},
                              !.put = [kind |-> "status", oid |-> oid, rec |-> NoOrder,
                                       status |-> call[c].status]]]
                /\ call' = [call EXCEPT ![c].pc = "uo_commit", ![c].starts = @ + 1]
    /\ UNCHANGED <<stock, price, orders, reviews, rating, reviewCount, catalog>>

UpdateOrderCommit(c) ==
    /\ call[c].pc = "uo_commit"
    /\ CommitWrites(c)
    /\ call' = CommitAndEnd(c, "ok")

\* ------------------------------------------------------------------ updateStock
\* ProductService.updateStock(id, quantity) is entered.
UpdateStockBegin(c, p, q) ==
    /\ call[c].pc = "idle"
    /\ call' = [call EXCEPT ![c] = [IdleCall EXCEPT !.pc = "us_read",
                    !.op = "updateStock", !.product = p, !.delta = q]]
    /\ UNCHANGED <<stock, price, orders, txn, reviews, rating, reviewCount, catalog>>

\* updateStock without the floor check on newStock.
UpdateStockReadNoFloor(c) ==
    /\ call[c].pc = "us_read"
    /\ LET p == call[c].product
       IN  call' =
             IF p \notin Products
             THEN Finish(c, "NotFound")
             ELSE [call EXCEPT ![c].newStock = stock[p] + call[c].delta,
                               ![c].pc = "us_write"]
    /\ UNCHANGED <<stock, price, orders, txn, reviews, rating, reviewCount, catalog>>

\* this.model.findById(id), then newStock = product.stock + quantity and the
\* floor check.
UpdateStockRead(c) ==
    /\ call[c].pc = "us_read"
    /\ LET p == call[c].product
       IN  call' =
             IF p \notin Products
             THEN Finish(c, "NotFound")
             ELSE IF stock[p] + call[c].delta < 0
             THEN Finish(c, "InsufficientStock")
             ELSE [call EXCEPT ![c].newStock = stock[p] + call[c].delta,
                               ![c].pc = "us_write"]
    /\ UNCHANGED <<stock, price, orders, txn, reviews, rating, reviewCount, catalog>>

\* this.update(id, {stock: newStock, lastStockUpdate}), without a session.
UpdateStockWrite(c) ==
    /\ call[c].pc = "us_write"
    /\ LET p == call[c].product
       IN  /\ p \notin AllLockedP
           /\ StockOK(call[c].newStock)
           /\ stock' = [stock EXCEPT ![p] = call[c].newStock]
           /\ txn' = Touch(txn, {p}, {})
    /\ call' = Finish(c, "ok")
    /\ UNCHANGED <<price, orders, reviews, rating, reviewCount, catalog>>

\* Product.updateStock(id, quantity), the static of the Product model, is
\* entered.
StaticUpdateStockBegin(c, p, q) ==
    /\ call[c].pc = "idle"
    /\ call' = [call EXCEPT ![c] = [IdleCall EXCEPT !.pc = "ss_read",
                    !.op = "staticUpdateStock", !.product = p, !.delta = q]]
    /\ UNCHANGED <<stock, price, orders, txn, reviews, rating, reviewCount, catalog>>

\* this.findById(id); a missing product returns null; newStock below zero
\* throws 'Insufficient stock'; otherwise product.stock = newStock on the
\* loaded document.
StaticUpdateStockRead(c) ==
    /\ call[c].pc = "ss_read"
    /\ LET p == call[c].product
       IN  call' =
             IF p \notin Products
             THEN Finish(c, "null")
             ELSE IF stock[p] + call[c].delta < 0
             THEN Finish(c, "InsufficientStock")
             ELSE [call EXCEPT ![c].newStock = stock[p] + call[c].delta,
                               ![c].pc = "ss_save"]
    /\ UNCHANGED <<stock, price, orders, txn, reviews, rating, reviewCount, catalog>>

\* product.save(): the modified path stock is set to newStock.
StaticUpdateStockSave(c) ==
    /\ call[c].pc = "ss_save"
    /\ LET p == call[c].product
       IN  /\ p \notin AllLockedP
           /\ StockOK(call[c].newStock)
           /\ stock' = [stock EXCEPT ![p] = call[c].newStock]
           /\ txn' = Touch(txn, {p}, {})
    /\ call' = Finish(c, "ok")
    /\ UNCHANGED <<price, orders, reviews, rating, reviewCount, catalog>>

\* A product document is loaded; product.updateStock(quantity), the method of
\* the Product schema, is then called on it. newStock holds the loaded
\* document's stock until the method runs.
DocUpdateStockLoad(c, p, q) ==
    /\ call[c].pc = "idle"
    /\ p \in Products
    /\ call' = [call EXCEPT ![c] = [IdleCall EXCEPT !.pc = "ds_update",
                    !.op = "docUpdateStock", !.product = p, !.delta = q,
                    !.newStock = stock[p]]]
    /\ UNCHANGED <<stock, price, orders, txn, reviews, rating, reviewCount, catalog>>

\* newStock = this.stock + quantity; below zero throws 'Insufficient stock';
\* otherwise this.stock = newStock and this.save().
DocUpdateStockSave(c) ==
    /\ call[c].pc = "ds_update"
    /\ LET p == call[c].product
           newStock == call[c].newStock + call[c].delta
       IN  IF newStock < 0
           THEN /\ call' = Finish(c, "InsufficientStock")
                /\ UNCHANGED <<stock, txn>>
           ELSE /\ p \notin AllLockedP
                /\ StockOK(newStock)
                /\ stock' = [stock EXCEPT ![p] = newStock]
                /\ txn' = Touch(txn, {p}, {})
                /\ call' = [Finish(c, "ok") EXCEPT ![c].newStock = newStock]
    /\ UNCHANGED <<price, orders, reviews, rating, reviewCount, catalog>>

\* ------------------------------------------------------------------ admin handlers
\* Each admin handler issues one store operation without a session; the
\* request is entered and answered in the same step.
Answer(op, res) == [IdleCall EXCEPT !.pc = "done", !.op = op, !.result = res]

\* PATCH /api/admin/products/[id], operation update-stock:
\* Product.findByIdAndUpdate(id, {$inc: {stock: quantity}}).
AdminUpdateStock(c, p, q) ==
    /\ call[c].pc = "idle"
    /\ IF p \notin Products
       THEN /\ call' = [call EXCEPT ![c] =
                   [Answer("adminUpdateStock", "NotFound") EXCEPT !.product = p, !.delta = q]]
            /\ UNCHANGED <<stock, txn>>
       ELSE /\ p \notin AllLockedP
            /\ StockOK(stock[p] + q)
            /\ stock' = [stock EXCEPT ![p] = @ + q]
            /\ txn' = Touch(txn, {p}, {})
            /\ call' = [call EXCEPT ![c] =
                   [Answer("adminUpdateStock", "ok") EXCEPT !.product = p, !.delta = q]]
    /\ UNCHANGED <<price, orders, reviews, rating, reviewCount, catalog>>

\* PATCH /api/admin/products, operation bulk-update-stock: one
\* findByIdAndUpdate(id, {$inc: {stock: quantity}}) per entry; the quantity rule
\* is of type number, for which validateRequest applies no pattern.
AdminBulkUpdateStock(c, ups) ==
    /\ call[c].pc = "idle"
    /\ LET newStock == [p \in Products |-> stock[p] + QtySum(ups, p)]
           hit == {ups[i].product : i \in DOMAIN ups} \cap Products
       IN  /\ hit \cap AllLockedP = {}
           /\ \A p \in Products : StockOK(newStock[p])
           /\ stock' = newStock
           /\ txn' = Touch(txn, hit, {})
    /\ call' = [call EXCEPT ![c] =
           [Answer("adminBulkUpdateStock", "ok") EXCEPT !.items = ups]]
    /\ UNCHANGED <<price, orders, reviews, rating, reviewCount, catalog>>

\* PUT /api/admin/products/[id]: Product.findByIdAndUpdate(id, {$set: body},
\* {runValidators: true}); the body sets the price or the stock, and the
\* schema's min: 0 validators run on both.
AdminProductPut(c, p, field, v) ==
    /\ call[c].pc = "idle"
    /\ IF v < 0
       THEN /\ call' = [call EXCEPT ![c] =
                   [Answer("adminProductPut", "ValidationError") EXCEPT !.product = p, !.delta = v]]
            /\ UNCHANGED <<stock, price, txn>>
       ELSE /\ p \notin AllLockedP
            /\ stock' = IF field = "stock" THEN [stock EXCEPT ![p] = v] ELSE stock
            /\ price' = IF field = "price" THEN [price EXCEPT ![p] = v] ELSE price
            /\ txn' = Touch(txn, {p}, {})
            /\ call' = [call EXCEPT ![c] =
                   [Answer("adminProductPut", "ok") EXCEPT !.product = p, !.delta = v]]
    /\ UNCHANGED <<orders, reviews, rating, reviewCount, catalog>>

\* PUT /api/admin/orders/[id]: status is deleted from the body, then
\* Order.findByIdAndUpdate(id, {$set: body}, {runValidators: true}); the body
\* sets total.
AdminOrderPut(c, oid, v) ==
    /\ call[c].pc = "idle"
    /\ IF orders[oid] = NoOrder
       THEN /\ call' = [call EXCEPT ![c] =
                   [Answer("adminOrderPut", "NotFound") EXCEPT !.oid = oid, !.delta = v]]
            /\ UNCHANGED <<orders, txn>>
       ELSE /\ oid \notin AllLockedO
            /\ orders' = [orders EXCEPT ![oid].total = v]
            /\ txn' = Touch(txn, {}, {oid})
            /\ call' = [call EXCEPT ![c] =
                   [Answer("adminOrderPut", "ok") EXCEPT !.oid = oid, !.delta = v]]
    /\ UNCHANGED <<stock, price, reviews, rating, reviewCount, catalog>>

\* PATCH /api/admin/orders/[id], operation update-status:
\* Order.findByIdAndUpdate(id, {$set: {status}}) for any of the five statuses.
AdminOrderUpdateStatus(c, oid, st) ==
    /\ call[c].pc = "idle"
    /\ IF orders[oid] = NoOrder
       THEN /\ call' = [call EXCEPT ![c] =
                   [Answer("adminOrderStatus", "NotFound") EXCEPT !.oid = oid, !.status = st]]
            /\ UNCHANGED <<orders, txn>>
       ELSE /\ oid \notin AllLockedO
            /\ orders' = [orders EXCEPT ![oid].status = st]
            /\ txn' = Touch(txn, {}, {oid})
            /\ call' = [call EXCEPT ![c] =
                   [Answer("adminOrderStatus", "ok") EXCEPT !.oid = oid, !.status = st]]
    /\ UNCHANGED <<stock, price, reviews, rating, reviewCount, catalog>>

\* PATCH /api/admin/orders, operation update-status:
\* Order.updateMany({_id: {$in: orderIds}}, {$set: {status}}).
AdminBulkUpdateStatus(c, ids, st) ==
    /\ call[c].pc = "idle"
    /\ LET hit == {o \in ids : orders[o] # NoOrder}
       IN  /\ hit \cap AllLockedO = {}
           /\ orders' = [o \in OrderIds |->
                  IF o \in hit THEN [orders[o] EXCEPT !.status = st] ELSE orders[o]]
           /\ txn' = Touch(txn, {}, hit)
    /\ call' = [call EXCEPT ![c] =
           [Answer("adminBulkStatus", "ok") EXCEPT !.oids = ids, !.status = st]]
    /\ UNCHANGED <<stock, price, reviews, rating, reviewCount, catalog>>

\* PATCH /api/admin/orders, operation bulk-cancel: Order.updateMany({_id: {$in:
\* orderIds}, status: {$nin: [delivered, cancelled]}}, {$set: {status:
\* cancelled}}).
AdminBulkCancel(c, ids) ==
    /\ call[c].pc = "idle"
    /\ LET hit == {o \in ids : orders[o] # NoOrder
                                /\ orders[o].status \notin {"delivered", "cancelled"}}
       IN  /\ hit \cap AllLockedO = {}
           /\ orders' = [o \in OrderIds |->
                  IF o \in hit THEN [orders[o] EXCEPT !.status = "cancelled"] ELSE orders[o]]
           /\ txn' = Touch(txn, {}, hit)
    /\ call' = [call EXCEPT ![c] =
           [Answer("adminBulkCancel", "ok") EXCEPT !.oids = ids]]
    /\ UNCHANGED <<stock, price, reviews, rating, reviewCount, catalog>>

\* ------------------------------------------------------------------ Order document methods
\* order.updateStatus(status) on a freshly loaded document: the status is
\* assigned and the document saved; the pre('save') hook decrements the stock
\* of every line item when the status was modified to delivered.
OrderDocUpdateStatus(c, oid, st) ==
    /\ call[c].pc = "idle"
    /\ orders[oid] # NoOrder
    /\ LET order == orders[oid]
           hook == st = "delivered" /\ order.status # st
           newStock == [p \in Products |->
                           stock[p] - (IF hook THEN QtySum(order.items, p) ELSE 0)]
           hit == IF hook THEN {order.items[i].product : i \in DOMAIN order.items}
                  ELSE {}
       IN  /\ oid \notin AllLockedO
           /\ hit \cap AllLockedP = {}
           /\ \A p \in Products : StockOK(newStock[p])
           /\ stock' = newStock
           /\ orders' = [orders EXCEPT ![oid].status = st]
           /\ txn' = Touch(txn, hit, {oid})
    /\ call' = [call EXCEPT ![c] =
           [Answer("docUpdateStatus", "ok") EXCEPT !.oid = oid, !.status = st]]
    /\ UNCHANGED <<price, reviews, rating, reviewCount, catalog>>

\* order.cancel() on a freshly loaded document.
OrderDocCancel(c, oid) ==
    /\ call[c].pc = "idle"
    /\ orders[oid] # NoOrder
    /\ IF orders[oid].status # "pending" /\ orders[oid].status # "processing"
       THEN /\ call' = [call EXCEPT ![c] =
                   [Answer("docCancel", "InvalidState") EXCEPT !.oid = oid]]
            /\ UNCHANGED <<orders, txn>>
       ELSE /\ oid \notin AllLockedO
            /\ orders' = [orders EXCEPT ![oid].status = "cancelled"]
            /\ txn' = Touch(txn, {}, {oid})
            /\ call' = [call EXCEPT ![c] =
                   [Answer("docCancel", "ok") EXCEPT !.oid = oid]]
    /\ UNCHANGED <<stock, price, reviews, rating, reviewCount, catalog>>

\* ------------------------------------------------------------------ reviews
\* A committed review of product p by user u exists.
HasReview(u, p) == \E r \in ReviewIds : reviews[r].user = u /\ reviews[r].product = p

\* A review id no committed review and no open transaction uses.
FreeReviewIds(c) ==
    {r \in ReviewIds :
        /\ reviews[r] = NoReview
        /\ \A d \in Calls \ {c} : txn[d].rput.kind = "insert" => txn[d].rput.rid # r}

\* The request ends with result res: the callback returned and the
\* transaction committed, or the callback threw an error that is not transient
\* and session.withTransaction aborted and rethrew it.
EndReview(c, res) ==
    [call EXCEPT ![c].pc = "done", ![c].result = res, ![c].oldRating = NoRating,
                 ![c].prodRating = Zero, ![c].prodCount = 0]

\* A write conflict is a transient transaction error: session.withTransaction
\* aborts and runs the callback again from its first statement.
Retry(c, first) ==
    [call EXCEPT ![c].pc = first, ![c].oldRating = NoRating,
                 ![c].prodRating = Zero, ![c].prodCount = 0]

\* ------------------------------------------------------------------ createReview
CreateReviewBegin(c, u, p, r) ==
    /\ call[c].pc = "idle"
    /\ call' = [call EXCEPT ![c] = [IdleCall EXCEPT !.pc = "cr_read",
                    !.op = "createReview", !.user = u, !.product = p, !.rating = r,
                    !.comment = "first"]]
    /\ UNCHANGED <<stock, price, orders, reviews, rating, reviewCount, txn, catalog>>

\* productService.findById(data.product, {session}): the first operation of
\* the transaction, which takes its snapshot.
CreateReviewRead(c) ==
    /\ call[c].pc = "cr_read"
    /\ LET p == call[c].product
       IN  IF p \notin Products
           THEN /\ txn' = [txn EXCEPT ![c] = NoTxn]
                /\ call' = EndReview(c, "NotFound")
           ELSE /\ txn' = [txn EXCEPT ![c] = [NoTxn EXCEPT !.active = TRUE, !.snap = TRUE]]
                /\ call' = [call EXCEPT ![c].prodRating = rating[p],
                                        ![c].prodCount = reviewCount[p],
                                        ![c].pc = "cr_insert"]
    /\ UNCHANGED <<stock, price, orders, reviews, rating, reviewCount, catalog>>

\* The insert into a collection that has no unique index on (product, user).
CreateReviewInsertNoIndex(c) ==
    /\ call[c].pc = "cr_insert"
    /\ LET rec == [user |-> call[c].user, product |-> call[c].product,
                   rating |-> call[c].rating, comment |-> call[c].comment]
       IN  IF call[c].rating \notin MinRating..MaxRating
           THEN /\ txn' = [txn EXCEPT ![c] = NoTxn]
                /\ call' = EndReview(c, "ValidationError")
           ELSE /\ FreeReviewIds(c) # {}
                /\ LET rid == CHOOSE r \in FreeReviewIds(c) :
                                  \A r2 \in FreeReviewIds(c) : r <= r2
                   IN  /\ txn' = [txn EXCEPT ![c].rput =
                                      [kind |-> "insert", rid |-> rid, rec |-> rec]]
                       /\ call' = [call EXCEPT ![c].rid = rid, ![c].pc = "cr_product"]
    /\ UNCHANGED <<stock, price, orders, reviews, rating, reviewCount, catalog>>

\* The insert as an upsert: a review of the same user and product is overwritten.
CreateReviewInsertMerge(c) ==
    /\ call[c].pc = "cr_insert"
    /\ LET key == <<call[c].user, call[c].product>>
           rec == [user |-> call[c].user, product |-> call[c].product,
                   rating |-> call[c].rating, comment |-> call[c].comment]
       IN  IF call[c].rating \notin MinRating..MaxRating
           THEN /\ txn' = [txn EXCEPT ![c] = NoTxn]
                /\ call' = EndReview(c, "ValidationError")
           ELSE IF key \in LockedK(c) \cup txn[c].staleK
           THEN /\ txn' = [txn EXCEPT ![c] = NoTxn]
                /\ call' = Retry(c, "cr_read")
           ELSE IF HasReview(call[c].user, call[c].product)
           THEN LET rid == CHOOSE r \in ReviewIds :
                               reviews[r].user = call[c].user
                               /\ reviews[r].product = call[c].product
                IN  /\ txn' = [txn EXCEPT ![c].rput =
                                   [kind |-> "update", rid |-> rid, rec |-> rec],
                               ![c].lockR = @ \cup {rid}, ![c].lockK = @ \cup {key}]
                    /\ call' = [call EXCEPT ![c].rid = rid, ![c].pc = "cr_product"]
           ELSE /\ FreeReviewIds(c) # {}
                /\ LET rid == CHOOSE r \in FreeReviewIds(c) :
                                  \A r2 \in FreeReviewIds(c) : r <= r2
                   IN  /\ txn' = [txn EXCEPT ![c].rput =
                                      [kind |-> "insert", rid |-> rid, rec |-> rec],
                                  ![c].lockK = @ \cup {key}]
                       /\ call' = [call EXCEPT ![c].rid = rid, ![c].pc = "cr_product"]
    /\ UNCHANGED <<stock, price, orders, reviews, rating, reviewCount, catalog>>

\* super.create(data, {session}): Review.create([data], {session}).  The
\* schema's validators run first (rating in 1..5); the insert then writes the
\* key of the unique index on (product, user): a key another transaction has
\* written since the snapshot is a write conflict, a committed key is the
\* duplicate key error E11000.
CreateReviewInsert(c) ==
    /\ call[c].pc = "cr_insert"
    /\ LET key == <<call[c].user, call[c].product>>
           rec == [user |-> call[c].user, product |-> call[c].product,
                   rating |-> call[c].rating, comment |-> call[c].comment]
       IN  IF call[c].rating \notin MinRating..MaxRating
           THEN /\ txn' = [txn EXCEPT ![c] = NoTxn]
                /\ call' = EndReview(c, "ValidationError")
           ELSE IF key \in LockedK(c) \cup txn[c].staleK
           THEN /\ txn' = [txn EXCEPT ![c] = NoTxn]
                /\ call' = Retry(c, "cr_read")
           ELSE IF HasReview(call[c].user, call[c].product)
           THEN /\ txn' = [txn EXCEPT ![c] = NoTxn]
                /\ call' = EndReview(c, "DuplicateKey")
           ELSE /\ FreeReviewIds(c) # {}
                /\ LET rid == CHOOSE r \in FreeReviewIds(c) :
                                  \A r2 \in FreeReviewIds(c) : r <= r2
                   IN  /\ txn' = [txn EXCEPT ![c].rput =
                                      [kind |-> "insert", rid |-> rid, rec |-> rec],
                                  ![c].lockK = @ \cup {key}]
                       /\ call' = [call EXCEPT ![c].rid = rid, ![c].pc = "cr_product"]
    /\ UNCHANGED <<stock, price, orders, reviews, rating, reviewCount, catalog>>

\* The product update without the $inc of reviewCount.
CreateReviewUpdateProductNoCount(c) ==
    /\ call[c].pc = "cr_product"
    /\ LET p == call[c].product
           currentTotal == FracTimes(call[c].prodRating, call[c].prodCount)
           newCount == call[c].prodCount + 1
           newRating == FracOver(FracPlus(currentTotal, call[c].rating), newCount)
       IN  IF ~RatingInRange(newRating)
           THEN /\ txn' = [txn EXCEPT ![c] = NoTxn]
                /\ call' = EndReview(c, "ValidationError")
           ELSE IF p \in LockedP(c) \cup txn[c].staleP
           THEN /\ txn' = [txn EXCEPT ![c] = NoTxn]
                /\ call' = Retry(c, "cr_read")
           ELSE /\ txn' = [txn EXCEPT ![c].pput =
                              [kind |-> "write", product |-> p, rating |-> newRating,
                               inc |-> 0, reset |-> FALSE],
                          ![c].lockP = @ \cup {p}]
                /\ call' = [call EXCEPT ![c].pc = "cr_commit"]
    /\ UNCHANGED <<stock, price, orders, reviews, rating, reviewCount, catalog>>

\* The product update on a store that does not detect the write conflict.
CreateReviewUpdateProductNoConflict(c) ==
    /\ call[c].pc = "cr_product"
    /\ LET p == call[c].product
           currentTotal == FracTimes(call[c].prodRating, call[c].prodCount)
           newCount == call[c].prodCount + 1
           newRating == FracOver(FracPlus(currentTotal, call[c].rating), newCount)
       IN  IF ~RatingInRange(newRating)
           THEN /\ txn' = [txn EXCEPT ![c] = NoTxn]
                /\ call' = EndReview(c, "ValidationError")
           ELSE /\ p \notin LockedP(c)
                /\ txn' = [txn EXCEPT ![c].pput =
                              [kind |-> "write", product |-> p, rating |-> newRating,
                               inc |-> 1, reset |-> FALSE],
                          ![c].lockP = @ \cup {p}]
                /\ call' = [call EXCEPT ![c].pc = "cr_commit"]
    /\ UNCHANGED <<stock, price, orders, reviews, rating, reviewCount, catalog>>

\* currentTotal, newCount and newRating from the product read, then
\* productService.update(product, {$inc: {reviewCount: 1}, $set: {rating:
\* newRating}}, {session}); the update validators run on the $set.
CreateReviewUpdateProduct(c) ==
    /\ call[c].pc = "cr_product"
    /\ LET p == call[c].product
           currentTotal == FracTimes(call[c].prodRating, call[c].prodCount)
           newCount == call[c].prodCount + 1
           newRating == FracOver(FracPlus(currentTotal, call[c].rating), newCount)
       IN  IF ~RatingInRange(newRating)
           THEN /\ txn' = [txn EXCEPT ![c] = NoTxn]
                /\ call' = EndReview(c, "ValidationError")
           ELSE IF p \in LockedP(c) \cup txn[c].staleP
           THEN /\ txn' = [txn EXCEPT ![c] = NoTxn]
                /\ call' = Retry(c, "cr_read")
           ELSE /\ txn' = [txn EXCEPT ![c].pput =
                              [kind |-> "write", product |-> p, rating |-> newRating,
                               inc |-> 1, reset |-> FALSE],
                          ![c].lockP = @ \cup {p}]
                /\ call' = [call EXCEPT ![c].pc = "cr_commit"]
    /\ UNCHANGED <<stock, price, orders, reviews, rating, reviewCount, catalog>>

\* The callback returned: session.withTransaction commits.
CreateReviewCommit(c) ==
    /\ call[c].pc = "cr_commit"
    /\ CommitWrites(c)
    /\ call' = EndReview(c, "ok")

\* ------------------------------------------------------------------ updateReview
\* The patch carries a rating (NoRating: none) and a comment (NoComment: none).
UpdateReviewBegin(c, rid, r, cm) ==
    /\ call[c].pc = "idle"
    /\ call' = [call EXCEPT ![c] = [IdleCall EXCEPT !.pc = "ur_read",
                    !.op = "updateReview", !.rid = rid, !.rating = r, !.comment = cm]]
    /\ UNCHANGED <<stock, price, orders, reviews, rating, reviewCount, txn, catalog>>

\* this.findById(id, {session}), the first operation of the transaction, and
\* the test data.rating && data.rating !== review.rating.
UpdateReviewRead(c) ==
    /\ call[c].pc = "ur_read"
    /\ LET review == reviews[call[c].rid]
       IN  IF review = NoReview
           THEN /\ txn' = [txn EXCEPT ![c] = NoTxn]
                /\ call' = EndReview(c, "NotFound")
           ELSE /\ txn' = [txn EXCEPT ![c] = [NoTxn EXCEPT !.active = TRUE, !.snap = TRUE]]
                /\ call' = [call EXCEPT ![c].oldRating = review.rating,
                               ![c].user = review.user,
                               ![c].product = review.product,
                               ![c].pc = IF call[c].rating # NoRating
                                            /\ call[c].rating # review.rating
                                         THEN "ur_product" ELSE "ur_update"]
    /\ UNCHANGED <<stock, price, orders, reviews, rating, reviewCount, catalog>>

\* productService.findById(review.product.toString(), {session}).  The review
\* schema's pre(/^find/) hook populates product, so review.product is a
\* document when the product exists: its toString() is the id when the
\* document stringifies to its id, and otherwise a text that findById cannot
\* cast to an id.  Both outcomes are taken.
ReviewReadProduct(c, from, to) ==
    /\ call[c].pc = from
    /\ LET p == call[c].product
       IN  \/ /\ txn' = [txn EXCEPT ![c] = NoTxn]
              /\ call' = EndReview(c, "CastError")
           \/ /\ txn' = txn
              /\ call' = [call EXCEPT ![c].prodRating = rating[p],
                                      ![c].prodCount = reviewCount[p],
                                      ![c].pc = to]
    /\ UNCHANGED <<stock, price, orders, reviews, rating, reviewCount, catalog>>

UpdateReviewReadProduct(c) == ReviewReadProduct(c, "ur_product", "ur_setrating")

\* The product update issued without the session: it reaches the store at
\* once.
UpdateReviewUpdateProductNoSession(c) ==
    /\ call[c].pc = "ur_setrating"
    /\ LET p == call[c].product
           count == OrOne(call[c].prodCount)
           currentTotal == FracTimes(call[c].prodRating, count)
           totalWithoutOldRating == FracPlus(currentTotal, 0 - call[c].oldRating)
           newRating == FracOver(FracPlus(totalWithoutOldRating, call[c].rating), count)
       IN  IF ~RatingInRange(newRating)
           THEN /\ txn' = [txn EXCEPT ![c] = NoTxn]
                /\ call' = EndReview(c, "ValidationError")
                /\ rating' = rating
           ELSE /\ p \notin AllLockedP
                /\ rating' = [rating EXCEPT ![p] = newRating]
                /\ txn' = Touch(txn, {p}, {})
                /\ call' = [call EXCEPT ![c].pc = "ur_update"]
    /\ UNCHANGED <<stock, price, orders, reviews, reviewCount, catalog>>

\* currentTotal, totalWithoutOldRating and newRating, then
\* productService.update(product, {$set: {rating: newRating}}, {session}).
UpdateReviewUpdateProduct(c) ==
    /\ call[c].pc = "ur_setrating"
    /\ LET p == call[c].product
           count == OrOne(call[c].prodCount)
           currentTotal == FracTimes(call[c].prodRating, count)
           totalWithoutOldRating == FracPlus(currentTotal, 0 - call[c].oldRating)
           newRating == FracOver(FracPlus(totalWithoutOldRating, call[c].rating), count)
       IN  IF ~RatingInRange(newRating)
           THEN /\ txn' = [txn EXCEPT ![c] = NoTxn]
                /\ call' = EndReview(c, "ValidationError")
           ELSE IF p \in LockedP(c) \cup txn[c].staleP
           THEN /\ txn' = [txn EXCEPT ![c] = NoTxn]
                /\ call' = Retry(c, "ur_read")
           ELSE /\ txn' = [txn EXCEPT ![c].pput =
                              [kind |-> "write", product |-> p, rating |-> newRating,
                               inc |-> 0, reset |-> FALSE],
                          ![c].lockP = @ \cup {p}]
                /\ call' = [call EXCEPT ![c].pc = "ur_update"]
    /\ UNCHANGED <<stock, price, orders, reviews, rating, reviewCount, catalog>>

\* super.update(id, {rating?, comment?}, {session}): findByIdAndUpdate with
\* runValidators.
UpdateReviewWrite(c) ==
    /\ call[c].pc = "ur_update"
    /\ LET rid == call[c].rid
           r == IF call[c].rating # NoRating THEN call[c].rating ELSE reviews[rid].rating
           cm == IF call[c].comment # NoComment THEN call[c].comment
                 ELSE reviews[rid].comment
       IN  IF call[c].rating # NoRating /\ call[c].rating \notin MinRating..MaxRating
           THEN /\ txn' = [txn EXCEPT ![c] = NoTxn]
                /\ call' = EndReview(c, "ValidationError")
           ELSE IF rid \in LockedR(c) \cup txn[c].staleR
           THEN /\ txn' = [txn EXCEPT ![c] = NoTxn]
                /\ call' = Retry(c, "ur_read")
           ELSE /\ txn' = [txn EXCEPT ![c].rput =
                              [kind |-> "update", rid |-> rid,
                               rec |-> [reviews[rid] EXCEPT !.rating = r, !.comment = cm]],
                          ![c].lockR = @ \cup {rid}]
                /\ call' = [call EXCEPT ![c].pc = "ur_commit"]
    /\ UNCHANGED <<stock, price, orders, reviews, rating, reviewCount, catalog>>

UpdateReviewCommit(c) ==
    /\ call[c].pc = "ur_commit"
    /\ CommitWrites(c)
    /\ call' = EndReview(c, "ok")

\* ------------------------------------------------------------------ deleteReview
DeleteReviewBegin(c, rid) ==
    /\ call[c].pc = "idle"
    /\ call' = [call EXCEPT ![c] = [IdleCall EXCEPT !.pc = "dr_read",
                    !.op = "deleteReview", !.rid = rid]]
    /\ UNCHANGED <<stock, price, orders, reviews, rating, reviewCount, txn, catalog>>

\* this.findById(id, {session}).
DeleteReviewRead(c) ==
    /\ call[c].pc = "dr_read"
    /\ LET review == reviews[call[c].rid]
       IN  IF review = NoReview
           THEN /\ txn' = [txn EXCEPT ![c] = NoTxn]
                /\ call' = EndReview(c, "NotFound")
           ELSE /\ txn' = [txn EXCEPT ![c] = [NoTxn EXCEPT !.active = TRUE, !.snap = TRUE]]
                /\ call' = [call EXCEPT ![c].oldRating = review.rating,
                               ![c].user = review.user,
                               ![c].product = review.product,
                               ![c].pc = "dr_product"]
    /\ UNCHANGED <<stock, price, orders, reviews, rating, reviewCount, catalog>>

DeleteReviewReadProduct(c) == ReviewReadProduct(c, "dr_product", "dr_setrating")

\* currentCount = product.reviewCount || 1; the last review resets rating and
\* reviewCount to 0, any other recomputes the rating and decrements the count.
DeleteReviewUpdateProduct(c) ==
    /\ call[c].pc = "dr_setrating"
    /\ LET p == call[c].product
           currentCount == OrOne(call[c].prodCount)
           currentTotal == FracTimes(call[c].prodRating, currentCount)
           newRating == IF currentCount = 1 THEN Zero
                        ELSE FracOver(FracPlus(currentTotal, 0 - call[c].oldRating),
                                      currentCount - 1)
       IN  IF ~RatingInRange(newRating)
           THEN /\ txn' = [txn EXCEPT ![c] = NoTxn]
                /\ call' = EndReview(c, "ValidationError")
           ELSE IF p \in LockedP(c) \cup txn[c].staleP
           THEN /\ txn' = [txn EXCEPT ![c] = NoTxn]
                /\ call' = Retry(c, "dr_read")
           ELSE /\ txn' = [txn EXCEPT ![c].pput =
                              [kind |-> "write", product |-> p, rating |-> newRating,
                               inc |-> IF currentCount = 1 THEN 0 ELSE 0 - 1,
                               reset |-> currentCount = 1],
                          ![c].lockP = @ \cup {p}]
                /\ call' = [call EXCEPT ![c].pc = "dr_delete"]
    /\ UNCHANGED <<stock, price, orders, reviews, rating, reviewCount, catalog>>

\* this.delete(id, {session}): findByIdAndDelete.
DeleteReviewDelete(c) ==
    /\ call[c].pc = "dr_delete"
    /\ LET rid == call[c].rid
       IN  IF rid \in LockedR(c) \cup txn[c].staleR
           THEN /\ txn' = [txn EXCEPT ![c] = NoTxn]
                /\ call' = Retry(c, "dr_read")
           ELSE /\ txn' = [txn EXCEPT ![c].rput =
                              [kind |-> "delete", rid |-> rid, rec |-> NoReview],
                          ![c].lockR = @ \cup {rid},
                          ![c].lockK = @ \cup {<<call[c].user, call[c].product>>}]
                /\ call' = [call EXCEPT ![c].pc = "dr_commit"]
    /\ UNCHANGED <<stock, price, orders, reviews, rating, reviewCount, catalog>>

DeleteReviewCommit(c) ==
    /\ call[c].pc = "dr_commit"
    /\ CommitWrites(c)
    /\ call' = EndReview(c, "ok")

\* ------------------------------------------------------------------ withTransaction
\* BaseService.withTransaction(callback), with a callback that issues the
\* writes of items on the session ($inc of a product's stock by the item's
\* quantity) and then returns (fnEnd = "return") or throws (fnEnd = "throw").
\* startSession, then session.withTransaction starts the transaction and
\* invokes the callback.
WithTransactionBegin(c, items, fnEnd) ==
    /\ call[c].pc = "idle"
    /\ \A p \in Products : stock[p] - Cardinality(Calls) * MaxQty >= 0 - MaxDebt
    /\ call' = [call EXCEPT ![c] = [IdleCall EXCEPT !.pc = "wt_fn",
                    !.op = "withTransaction", !.items = items, !.fnEnd = fnEnd,
                    !.todo = 1..Len(items), !.session = TRUE]]
    /\ txn' = [txn EXCEPT ![c] = [NoTxn EXCEPT !.active = TRUE]]
    /\ UNCHANGED <<stock, price, orders, reviews, rating, reviewCount, catalog>>

\* One write of the callback on the session. A document written by another
\* transaction since the snapshot is a write conflict, which the callback
\* lets propagate; the transaction is aborted.
WithTransactionCallbackWrite(c) ==
    /\ call[c].pc = "wt_fn"
    /\ call[c].todo # {}
    /\ LET i == CHOOSE x \in call[c].todo : \A y \in call[c].todo : x <= y
           item == call[c].items[i]
       IN  IF item.product \in LockedP(c) \cup txn[c].staleP
           THEN /\ txn' = [txn EXCEPT ![c] = NoTxn]
                /\ call' = [call EXCEPT ![c].pc = "wt_catch",
                                        ![c].thrown = "WriteConflict"]
           ELSE /\ txn' = [txn EXCEPT ![c].snap = TRUE,
                                      ![c].inc[item.product] = @ + item.quantity,
                                      ![c].lockP = @ \cup {item.product}]
                /\ call' = [call EXCEPT ![c].todo = @ \ {i}]
    /\ UNCHANGED <<stock, price, orders, reviews, rating, reviewCount, catalog>>

\* The callback ends: it returns its result, or it throws an error of its
\* own and the transaction is aborted.
WithTransactionCallbackEnd(c) ==
    /\ call[c].pc = "wt_fn"
    /\ call[c].todo = {}
    /\ IF call[c].fnEnd = "return"
       THEN /\ call' = [call EXCEPT ![c].pc = "wt_commit"]
            /\ txn' = txn
       ELSE /\ call' = [call EXCEPT ![c].pc = "wt_catch", ![c].thrown = "Error"]
            /\ txn' = [txn EXCEPT ![c] = NoTxn]
    /\ UNCHANGED <<stock, price, orders, reviews, rating, reviewCount, catalog>>

\* session.withTransaction on a transient transaction error: a new
\* transaction is started and the callback is invoked again.
WithTransactionRetry(c) ==
    /\ call[c].pc = "wt_catch"
    /\ call[c].thrown = "WriteConflict"
    /\ call' = [call EXCEPT ![c].pc = "wt_fn", ![c].thrown = "",
                            ![c].todo = 1..Len(call[c].items)]
    /\ txn' = [txn EXCEPT ![c] = [NoTxn EXCEPT !.active = TRUE]]
    /\ UNCHANGED <<stock, price, orders, reviews, rating, reviewCount, catalog>>

\* The error leaves withTransaction without passing the finally block.
WithTransactionRethrowNoFinally(c) ==
    /\ call[c].pc = "wt_catch"
    /\ call' = [call EXCEPT ![c].pc = "done", ![c].result = call[c].thrown]
    /\ UNCHANGED <<stock, price, orders, txn, reviews, rating, reviewCount, catalog>>

\* session.withTransaction rethrows: the error is not transient, or the time
\* limit of the retries has passed. Control reaches the finally block.
WithTransactionRethrow(c) ==
    /\ call[c].pc = "wt_catch"
    /\ call' = [call EXCEPT ![c].pc = "wt_finally", ![c].result = call[c].thrown]
    /\ UNCHANGED <<stock, price, orders, txn, reviews, rating, reviewCount, catalog>>

\* The callback returned: the transaction is committed and `return result!`.
WithTransactionCommit(c) ==
    /\ call[c].pc = "wt_commit"
    /\ CommitWrites(c)
    /\ call' = [call EXCEPT ![c].pc = "wt_finally", ![c].result = "ok"]

\* finally: session.endSession().
WithTransactionFinally(c) ==
    /\ call[c].pc = "wt_finally"
    /\ call' = [call EXCEPT ![c].pc = "done", ![c].session = FALSE,
                            ![c].ended = @ + 1]
    /\ UNCHANGED <<stock, price, orders, txn, reviews, rating, reviewCount, catalog>>

\* ------------------------------------------------------------------ activity logging
\* What the log sink does with one record: it stores it, it rejects (the
\* store or the network fails), or, for the HTTP sink, it answers with a
\* status that is not ok.
SinkOutcomes == {"ok", "rejects", "notOk"}

\* The outcome of a logging call: whether it threw to its caller and whether
\* the record was stored.
LogOutcome(threw, logged) == [threw |-> threw, logged |-> logged]

\* The body of a try block that awaits the sink: a rejection throws, and so
\* does `throw new Error('Failed to log activity')` on a response that is not ok.
AwaitSink(sink) == LogOutcome(sink # "ok", sink = "ok")

\* A catch block that writes to console.error and does not rethrow.
Swallow(out) == LogOutcome(FALSE, out.logged)

\* logActivity: the fetch of /api/admin/activity and the response check in a
\* try; the catch returns null.
LogActivity(sink) == Swallow(AwaitSink(sink))

\* logAdminAction: logSystemActivity, which is logActivity('system', ...),
\* in a try whose catch swallows.
LogAdminAction(sink) == Swallow(LogActivity(sink))

\* logModelActivity with the error of its try block left to propagate.
LogModelActivityNoCatch(hasUser, sink) ==
    IF ~hasUser THEN LogOutcome(FALSE, FALSE)
    ELSE AwaitSink(sink)

\* logModelActivity of utils/adminActivity: returns at once without a user
\* id; otherwise activityLogService.create in a try whose catch swallows.
LogModelActivity(hasUser, sink) ==
    IF ~hasUser THEN LogOutcome(FALSE, FALSE)
    ELSE Swallow(AwaitSink(sink))

Loggers == {"logModelActivity", "logAdminAction", "logActivity"}

\* PATCH /api/admin/products/[id], operation update-stock, up to the logging
\* call: the $inc of the stock; a missing product is answered not-found
\* before any logging.
LoggedUpdateStockWrite(c, p, q, logger, hasUser) ==
    /\ call[c].pc = "idle"
    /\ LET req == [IdleCall EXCEPT !.op = "loggedUpdateStock", !.product = p,
                                   !.delta = q, !.logger = logger, !.hasUser = hasUser]
       IN  IF p \notin Products
           THEN /\ call' = [call EXCEPT ![c] =
                       [req EXCEPT !.pc = "done", !.result = "NotFound"]]
                /\ UNCHANGED <<stock, txn>>
           ELSE /\ p \notin AllLockedP
                /\ StockOK(stock[p] + q)
                /\ stock' = [stock EXCEPT ![p] = @ + q]
                /\ txn' = Touch(txn, {p}, {})
                /\ call' = [call EXCEPT ![c] = [req EXCEPT !.pc = "log", !.result = "ok"]]
    /\ UNCHANGED <<price, orders, reviews, rating, reviewCount, catalog>>

\* await of the logging call, with what the sink does this time.
LoggedUpdateStockLog(c, sink) ==
    /\ call[c].pc = "log"
    /\ LET out == CASE call[c].logger = "logModelActivity" ->
                           LogModelActivity(call[c].hasUser, sink)
                    [] call[c].logger = "logAdminAction" -> LogAdminAction(sink)
                    [] OTHER -> LogActivity(sink)
       IN  call' = [call EXCEPT ![c].pc = "respond", ![c].sink = sink,
                                ![c].logged = out.logged,
                                ![c].thrown = IF out.threw THEN "LogError" ELSE ""]
    /\ UNCHANGED <<stock, price, orders, txn, reviews, rating, reviewCount, catalog>>

\* sendSuccess(res, product), or the handler's catch when the await threw.
LoggedUpdateStockRespond(c) ==
    /\ call[c].pc = "respond"
    /\ call' = [call EXCEPT ![c].pc = "done",
                    ![c].result = IF call[c].thrown = "" THEN call[c].result ELSE "Error"]
    /\ UNCHANGED <<stock, price, orders, txn, reviews, rating, reviewCount, catalog>>

\* ------------------------------------------------------------------ product creation
\* ProductService.create(data) is entered with the product's name.
ProductCreateBegin(c, name) ==
    /\ call[c].pc = "idle"
    /\ call' = [call EXCEPT ![c] = [IdleCall EXCEPT !.pc = "pc_sku",
                    !.op = "createProduct", !.name = name]]
    /\ UNCHANGED <<stock, price, orders, txn, reviews, rating, reviewCount, catalog>>

\* generateSKU: the prefix from the name and this.count() of the products
\* collection.
ProductCreateGenerateSKU(c) ==
    /\ call[c].pc = "pc_sku"
    /\ LET count == Cardinality({i \in CatalogIds : catalog[i] # NoSku})
       IN  call' = [call EXCEPT ![c].sku = GenerateSKU(call[c].name, count),
                                ![c].pc = "pc_insert"]
    /\ UNCHANGED <<stock, price, orders, txn, reviews, rating, reviewCount, catalog>>

\* The insert into a collection that has no unique index on sku.
ProductCreateInsertNoIndex(c) ==
    /\ call[c].pc = "pc_insert"
    /\ \E i \in CatalogIds : catalog[i] = NoSku
    /\ LET id == CHOOSE i \in CatalogIds :
                     /\ catalog[i] = NoSku
                     /\ \A j \in CatalogIds : catalog[j] = NoSku => i <= j
       IN  catalog' = [catalog EXCEPT ![id] = call[c].sku]
    /\ call' = Finish(c, "ok")
    /\ UNCHANGED <<stock, price, orders, txn, reviews, rating, reviewCount>>

\* super.create({...data, sku}) without a session: new model(data).save().
\* The unique index on sku rejects a SKU a stored product holds with the
\* duplicate key error E11000, and nothing is stored.
ProductCreateInsert(c) ==
    /\ call[c].pc = "pc_insert"
    /\ IF \E i \in CatalogIds : catalog[i] = call[c].sku
       THEN /\ call' = Finish(c, "DuplicateKey")
            /\ UNCHANGED catalog
       ELSE /\ \E i \in CatalogIds : catalog[i] = NoSku
            /\ LET id == CHOOSE i \in CatalogIds :
                             /\ catalog[i] = NoSku
                             /\ \A j \in CatalogIds : catalog[j] = NoSku => i <= j
               IN  catalog' = [catalog EXCEPT ![id] = call[c].sku]
            /\ call' = Finish(c, "ok")
    /\ UNCHANGED <<stock, price, orders, txn, reviews, rating, reviewCount>>

\* DELETE /api/admin/products/[id]: Product.findByIdAndDelete(id), of a
\* product other than A and B.
AdminProductDelete(c, id) ==
    /\ call[c].pc = "idle"
    /\ id \notin 1..Cardinality(Products)
    /\ IF catalog[id] = NoSku
       THEN /\ call' = [call EXCEPT ![c] = Answer("adminProductDelete", "NotFound")]
            /\ UNCHANGED catalog
       ELSE /\ call' = [call EXCEPT ![c] = Answer("adminProductDelete", "ok")]
            /\ catalog' = [catalog EXCEPT ![id] = NoSku]
    /\ UNCHANGED <<stock, price, orders, txn, reviews, rating, reviewCount>>

\* ------------------------------------------------------------------ order service, rejected calls
OrderCommitPcs == {"co_commit", "uo_commit", "ca_commit"}

\* await session.commitTransaction() rejects: nothing of the transaction
\* reaches the store. The catch block that encloses the commit calls
\* abortTransaction on the transaction whose commit was issued, and the
\* finally block ends the session; the caller gets an error.
CommitTransactionRejects(c) ==
    /\ call[c].pc \in OrderCommitPcs
    /\ txn' = [txn EXCEPT ![c] = NoTxn]
    /\ call' = [AbortAndEnd(c, "TransactionError") EXCEPT ![c].commits = @ + 1]
    /\ UNCHANGED <<stock, price, orders, reviews, rating, reviewCount, catalog>>

\* The commit succeeds and the read of the result that follows it,
\* this.findById(order.id, {populate}), rejects: no catch block receives the
\* rejection (in createOrder the read is outside the inner try, in updateOrder
\* and cancelOrder the promise is returned without await), the finally block
\* ends the session and the caller gets the error.
FindByIdRejects(c) ==
    /\ call[c].pc \in OrderCommitPcs
    /\ CommitWrites(c)
    /\ call' = CommitAndEnd(c, "ReadFailed")

\* ------------------------------------------------------------------ specifications
CreateOrderSteps(c) ==
    \/ \E i \in DOMAIN call[c].items : CreateOrderValidate(c, i)
    \/ CreateOrderInsert(c)
    \/ \E i \in DOMAIN call[c].items : CreateOrderDecrement(c, i)
    \/ CreateOrderCommit(c)

CancelOrderSteps(c) ==
    \/ CancelOrderRead(c)
    \/ \E i \in DOMAIN call[c].items : CancelOrderRestore(c, i)
    \/ CancelOrderUpdate(c)
    \/ CancelOrderCommit(c)

UpdateOrderSteps(c) ==
    \/ UpdateOrderWrite(c)
    \/ UpdateOrderCommit(c)

UpdateStockSteps(c) ==
    \/ UpdateStockRead(c)
    \/ UpdateStockWrite(c)

\* Concurrent requests against the stock of one product: order creation, order
\* cancellation and the service's stock adjustment.
Next ==
    \E c \in Calls :
        \/ \E items \in StockRequests : CreateOrderBegin(c, items)
        \/ CreateOrderSteps(c)
        \/ \E oid \in OrderIds : CancelOrderBegin(c, oid)
        \/ CancelOrderSteps(c)
        \/ \E q \in ((0 - MaxQty)..MaxQty) \ {0} : UpdateStockBegin(c, "A", q)
        \/ UpdateStockSteps(c)
        \/ Return(c)

Spec == Init /\ [][Next]_vars

\* Concurrent order creations and cancellations over two products.
NextAtomic ==
    \E c \in Calls :
        \/ \E items \in AtomicRequests : CreateOrderBegin(c, items)
        \/ CreateOrderSteps(c)
        \/ \E oid \in OrderIds : CancelOrderBegin(c, oid)
        \/ CancelOrderSteps(c)
        \/ Return(c)

SpecAtomic == Init /\ [][NextAtomic]_vars

\* The steps of the review service's requests.
CreateReviewSteps(c) ==
    \/ CreateReviewRead(c)
    \/ CreateReviewInsert(c)
    \/ CreateReviewUpdateProduct(c)
    \/ CreateReviewCommit(c)

UpdateReviewSteps(c) ==
    \/ UpdateReviewRead(c)
    \/ UpdateReviewReadProduct(c)
    \/ UpdateReviewUpdateProduct(c)
    \/ UpdateReviewWrite(c)
    \/ UpdateReviewCommit(c)

DeleteReviewSteps(c) ==
    \/ DeleteReviewRead(c)
    \/ DeleteReviewReadProduct(c)
    \/ DeleteReviewUpdateProduct(c)
    \/ DeleteReviewDelete(c)
    \/ DeleteReviewCommit(c)

\* The review service under concurrent requests on the reviews of product A,
\* with ratings that pass the schema.
NextReview ==
    \E c \in Calls :
        \/ \E u \in Users, r \in ReviewRatings : CreateReviewBegin(c, u, "A", r)
        \/ CreateReviewSteps(c)
        \/ \E rid \in ReviewIds, r \in ReviewRatings :
               UpdateReviewBegin(c, rid, r, NoComment)
        \/ UpdateReviewSteps(c)
        \/ \E rid \in ReviewIds : DeleteReviewBegin(c, rid)
        \/ DeleteReviewSteps(c)
        \/ Return(c)

SpecReview == Init /\ [][NextReview]_vars

SeqCalls == {"c1"}

\* One request at a time, with every kind of input: a product that does not
\* exist, a rating the schema rejects, patches of the comment alone.
CommentPatches == {NoComment, "edited"}

NextReviewSeq ==
    \E c \in SeqCalls :
        \/ \E u \in Users, p \in {"A", MissingProduct},
                 r \in ReviewRatings \cup {BadRating} : CreateReviewBegin(c, u, p, r)
        \/ CreateReviewSteps(c)
        \/ \E rid \in ReviewIds, r \in ReviewRatings \cup {NoRating, BadRating},
                 cm \in CommentPatches : UpdateReviewBegin(c, rid, r, cm)
        \/ UpdateReviewSteps(c)
        \/ \E rid \in ReviewIds : DeleteReviewBegin(c, rid)
        \/ DeleteReviewSteps(c)
        \/ Return(c)

SpecReviewSeq == Init /\ [][NextReviewSeq]_vars

\* One request at a time: the order service, the admin handlers and the Order
\* document's methods.
SeqRequests == {<<Item("A", q, CallerPrice)>> : q \in 1..MaxQty}
BulkStockUpdates == {<<Item("A", q, 0)>> : q \in {0 - 1, 1}}

NextAdmin ==
    \E c \in SeqCalls :
        \/ \E items \in SeqRequests : CreateOrderBegin(c, items)
        \/ CreateOrderSteps(c)
        \/ \E oid \in OrderIds : CancelOrderBegin(c, oid)
        \/ CancelOrderSteps(c)
        \/ \E oid \in OrderIds, st \in Statuses \cup {KeepStatus} :
               UpdateOrderBegin(c, oid, st)
        \/ UpdateOrderSteps(c)
        \/ \E q \in {0 - 1, 1} : AdminUpdateStock(c, "A", q)
        \/ \E ups \in BulkStockUpdates : AdminBulkUpdateStock(c, ups)
        \/ \E v \in Prices : AdminProductPut(c, "A", "price", v)
        \/ \E oid \in OrderIds : AdminOrderPut(c, oid, 0)
        \/ \E oid \in OrderIds, st \in Statuses : AdminOrderUpdateStatus(c, oid, st)
        \/ \E ids \in SUBSET OrderIds, st \in Statuses : AdminBulkUpdateStatus(c, ids, st)
        \/ \E ids \in SUBSET OrderIds : AdminBulkCancel(c, ids)
        \/ \E oid \in OrderIds, st \in Statuses : OrderDocUpdateStatus(c, oid, st)
        \/ \E oid \in OrderIds : OrderDocCancel(c, oid)
        \/ Return(c)

SpecAdmin == Init /\ [][NextAdmin]_vars

\* One caller at a time adjusts stock through the service, the model static
\* and the document method, on an existing or a missing product; the admin
\* $inc handler supplies stocks below zero to start from.
StockDeltas == ((0 - MaxQty)..MaxQty) \ {0}

NextStock ==
    \E c \in SeqCalls :
        \/ \E p \in ProductIds, q \in StockDeltas : UpdateStockBegin(c, p, q)
        \/ UpdateStockSteps(c)
        \/ \E p \in ProductIds, q \in StockDeltas : StaticUpdateStockBegin(c, p, q)
        \/ StaticUpdateStockRead(c)
        \/ StaticUpdateStockSave(c)
        \/ \E p \in Products, q \in StockDeltas : DocUpdateStockLoad(c, p, q)
        \/ DocUpdateStockSave(c)
        \/ \E p \in ProductIds, q \in StockDeltas : AdminUpdateStock(c, p, q)
        \/ Return(c)

SpecStock == Init /\ [][NextStock]_vars

\* Concurrent withTransaction calls whose callbacks write the stock of one or
\* two products and return or throw.
Callbacks ==
    {<<>>, <<Item("A", 0 - 1, 0)>>, <<Item("A", 0 - 1, 0), Item("B", 0 - MaxQty, 0)>>,
     <<Item("B", 0 - 1, 0), Item("A", 0 - 1, 0)>>}

WithTransactionSteps(c) ==
    \/ WithTransactionCallbackWrite(c)
    \/ WithTransactionCallbackEnd(c)
    \/ WithTransactionRetry(c)
    \/ WithTransactionRethrow(c)
    \/ WithTransactionCommit(c)
    \/ WithTransactionFinally(c)

NextTransaction ==
    \E c \in Calls :
        \/ \E items \in Callbacks, fnEnd \in {"return", "throw"} :
               WithTransactionBegin(c, items, fnEnd)
        \/ WithTransactionSteps(c)
        \/ Return(c)

SpecTransaction == Init /\ [][NextTransaction]_vars

\* Order creations and withTransaction callbacks racing on the same products.
NextRace ==
    \E c \in Calls :
        \/ \E items \in AtomicRequests : CreateOrderBegin(c, items)
        \/ CreateOrderSteps(c)
        \/ \E items \in Callbacks, fnEnd \in {"return", "throw"} :
               WithTransactionBegin(c, items, fnEnd)
        \/ WithTransactionSteps(c)
        \/ Return(c)

SpecRace == Init /\ [][NextRace]_vars

\* Order creations and cancellations only, one request at a time: nothing
\* else touches the products between a creation and its cancellation.
NextRoundTrip ==
    \E c \in SeqCalls :
        \/ \E items \in SeqRequests \cup AtomicRequests : CreateOrderBegin(c, items)
        \/ CreateOrderSteps(c)
        \/ \E oid \in OrderIds : CancelOrderBegin(c, oid)
        \/ CancelOrderSteps(c)
        \/ Return(c)

SpecRoundTrip == Init /\ [][NextRoundTrip]_vars

\* Concurrent order creations, some of which fail the validation: a missing
\* product, alone or after an item that passes, or a quantity above the stock.
ValidationRequests ==
    StockRequests
    \cup {<<Item("A", 1, CallerPrice), Item(MissingProduct, 1, CallerPrice)>>,
          <<Item("B", 1, CallerPrice), Item("A", MaxQty, CallerPrice)>>}

NextValidation ==
    \E c \in Calls :
        \/ \E items \in ValidationRequests : CreateOrderBegin(c, items)
        \/ CreateOrderSteps(c)
        \/ Return(c)

SpecValidation == Init /\ [][NextValidation]_vars

\* The review service and the order service working on product A at the
\* same time: one caller sends review requests, the other order requests.
ReviewCalls == {"c1"}
OrderCalls == {"c2"}

NextSession ==
    \/ \E c \in ReviewCalls :
        \/ \E u \in Users : CreateReviewBegin(c, u, "A", MinRating)
        \/ CreateReviewSteps(c)
        \/ \E rid \in ReviewIds : UpdateReviewBegin(c, rid, MaxRating, NoComment)
        \/ UpdateReviewSteps(c)
        \/ \E rid \in ReviewIds : DeleteReviewBegin(c, rid)
        \/ DeleteReviewSteps(c)
        \/ Return(c)
    \/ \E c \in OrderCalls :
        \/ \E items \in SeqRequests : CreateOrderBegin(c, items)
        \/ CreateOrderSteps(c)
        \/ \E oid \in OrderIds : CancelOrderBegin(c, oid)
        \/ CancelOrderSteps(c)
        \/ Return(c)

SpecSession == Init /\ [][NextSession]_vars

\* Stock updates of the admin handler, one at a time, with each logging
\* helper, with and without a user on the request, against a sink that
\* stores or fails.
NextLogging ==
    \E c \in SeqCalls :
        \/ \E p \in ProductIds, q \in StockDeltas, logger \in Loggers, hasUser \in BOOLEAN :
               LoggedUpdateStockWrite(c, p, q, logger, hasUser)
        \/ \E sink \in SinkOutcomes : LoggedUpdateStockLog(c, sink)
        \/ LoggedUpdateStockRespond(c)
        \/ Return(c)

SpecLogging == Init /\ [][NextLogging]_vars

\* Concurrent product creations and deletions.
NextCatalog ==
    \E c \in Calls :
        \/ \E name \in Names : ProductCreateBegin(c, name)
        \/ ProductCreateGenerateSKU(c)
        \/ ProductCreateInsert(c)
        \/ \E id \in CatalogIds : AdminProductDelete(c, id)
        \/ Return(c)

SpecCatalog == Init /\ [][NextCatalog]_vars

\* One request at a time, with orders whose line items may name the same
\* product more than once.
RepeatedRequests ==
    SeqRequests
    \cup {<<Item("A", q1, CallerPrice), Item("A", q2, CallerPrice)>> :
              q1 \in 1..MaxQty, q2 \in 1..MaxQty}

NextRepeated ==
    \E c \in SeqCalls :
        \/ \E items \in RepeatedRequests : CreateOrderBegin(c, items)
        \/ CreateOrderSteps(c)
        \/ \E oid \in OrderIds : CancelOrderBegin(c, oid)
        \/ CancelOrderSteps(c)
        \/ Return(c)

SpecRepeated == Init /\ [][NextRepeated]_vars

\* One request of the order service at a time, where the commit and the read
\* that follows it may reject.
NextProtocol ==
    \E c \in SeqCalls :
        \/ \E items \in SeqRequests : CreateOrderBegin(c, items)
        \/ CreateOrderSteps(c)
        \/ \E oid \in OrderIds : CancelOrderBegin(c, oid)
        \/ CancelOrderSteps(c)
        \/ \E oid \in OrderIds, st \in Statuses \cup {KeepStatus} :
               UpdateOrderBegin(c, oid, st)
        \/ UpdateOrderSteps(c)
        \/ CommitTransactionRejects(c)
        \/ FindByIdRejects(c)
        \/ Return(c)

SpecProtocol == Init /\ [][NextProtocol]_vars

\* Product creations and deletions, one request at a time.
NextCatalogSeq ==
    \E c \in SeqCalls :
        \/ \E name \in Names : ProductCreateBegin(c, name)
        \/ ProductCreateGenerateSKU(c)
        \/ ProductCreateInsert(c)
        \/ \E id \in CatalogIds : AdminProductDelete(c, id)
        \/ Return(c)

SpecCatalogSeq == Init /\ [][NextCatalogSeq]_vars

\* ------------------------------------------------------------------ claims
\* C1: under any interleaving of createOrder, cancelOrder and the service's
\* stock adjustment against one product, the committed stock of every product
\* is never negative (so two creations that each fit the stock but together
\* exceed it never both commit).
C1_StockNeverNegative == \A p \in Products : stock[p] >= 0

\* C5: a createOrder request changes the committed store in one step only, its
\* commit, and that step inserts the order and applies every line item's
\* decrement; a request whose decrement failed for some item never commits, so
\* it persists no order and no decrement of the items before it.
C5_CreateOrderAllOrNothing ==
    [][\A c \in Calls :
          (call[c].op = "createOrder" /\ call'[c] # call[c]) =>
              IF call[c].pc = "co_commit"
              THEN /\ orders' = [orders EXCEPT ![call[c].oid] =
                          [items |-> call[c].items, total |-> SumItems(call[c].items),
                           status |-> "pending"]]
                   /\ \A p \in Products :
                          stock'[p] = stock[p] - QtySum(call[c].items, p)
              ELSE /\ orders' = orders
                   /\ stock' = stock
                   /\ (call'[c].pc = "co_commit" => call'[c].todo = {})]_vars

\* C5's case: the decrement of the second of two items failed after the first
\* one's had been applied in the transaction, and the store shows neither the
\* order nor any decrement.
C5_Witness ==
    \E c \in Calls :
        /\ call[c].pc = "done" /\ call[c].op = "createOrder"
        /\ call[c].result = "WriteConflict"
        /\ Len(call[c].items) = 2 /\ Cardinality(call[c].todo) = 1
        /\ \A o \in OrderIds : orders[o] = NoOrder
        /\ \A p \in Products : stock[p] = MaxStock

\* ------------------------------------------------------------------ sequential claims
CancelOps == {"cancelOrder", "adminBulkCancel", "docCancel"}

\* The orders a request names.
Targets(r) == IF r.oid \in OrderIds THEN {r.oid} \cup r.oids ELSE r.oids

\* The request of c is answered by this step.
Answered(c) == call[c].pc # "done" /\ call'[c].pc = "done"

\* C3: every order's total is the sum of quantity x recorded unit price over
\* its line items, and no step changes the total or the line items of an order
\* that exists.
C3_TotalFrozen ==
    [][\A o \in OrderIds :
          /\ orders'[o] # NoOrder => orders'[o].total = SumItems(orders'[o].items)
          /\ orders[o] # NoOrder =>
                 /\ orders'[o].total = orders[o].total
                 /\ orders'[o].items = orders[o].items]_vars

\* C4: a cancellation turns an order cancelled only from pending or processing,
\* and a cancellation of an order that is shipped, delivered or cancelled is
\* answered with the invalid-state error and changes neither orders nor stock.
C4_CancelOnlyFromOpen ==
    [][\A c \in SeqCalls :
          (Answered(c) /\ call'[c].op \in CancelOps) =>
              \A o \in Targets(call'[c]) :
                  (orders[o] # NoOrder
                   /\ orders[o].status \in {"shipped", "delivered", "cancelled"}) =>
                      /\ call'[c].result = "InvalidState"
                      /\ orders' = orders
                      /\ stock' = stock]_vars

\* Total quantity of product p in the line items of the orders of S.
RECURSIVE QtyOfOrders(_, _)
QtyOfOrders(S, p) ==
    IF S = {} THEN 0
    ELSE LET o == CHOOSE x \in S : TRUE
         IN  QtySum(orders[o].items, p) + QtyOfOrders(S \ {o}, p)

\* C6: a step of a cancellation turns orders cancelled exactly when it adds
\* each of their line items' quantities back to the stock.
C6_CancelRestoresStock ==
    [][\A c \in SeqCalls :
          (call'[c] # call[c] /\ call'[c].op \in CancelOps) =>
              LET turned == {o \in OrderIds : /\ orders[o] # NoOrder
                                              /\ orders[o].status # "cancelled"
                                              /\ orders'[o].status = "cancelled"}
              IN  \A p \in Products : stock'[p] = stock[p] + QtyOfOrders(turned, p)]_vars

\* Position of a status on the fulfilment path.
Rank(st) ==
    CASE st = "pending" -> 0
      [] st = "processing" -> 1
      [] st = "shipped" -> 2
      [] st = "delivered" -> 3
      [] OTHER -> 4

\* C7: a step that changes an order's status moves it forward on pending ->
\* processing -> shipped -> delivered, or to cancelled from pending or
\* processing; delivered and cancelled are never left.
C7_StatusForwardOnly ==
    [][\A o \in OrderIds :
          (orders[o] # NoOrder /\ orders'[o].status # orders[o].status) =>
              /\ orders[o].status \notin {"delivered", "cancelled"}
              /\ IF orders'[o].status = "cancelled"
                 THEN orders[o].status \in {"pending", "processing"}
                 ELSE Rank(orders'[o].status) > Rank(orders[o].status)]_vars

\* C8: no step of any operation, the admin stock handlers and the save hook
\* included, leaves a product with negative stock.
C8_NoStepBelowZero ==
    [][\A p \in Products : stock'[p] >= 0]_vars

\* ------------------------------------------------------------------ review claims
\* The reviews that exist for product p.
ReviewsOf(p) == {r \in ReviewIds : reviews[r] # NoReview /\ reviews[r].product = p}

RECURSIVE RatingSum(_)
RatingSum(S) ==
    IF S = {} THEN 0
    ELSE LET r == CHOOSE x \in S : TRUE
         IN  reviews[r].rating + RatingSum(S \ {r})

\* The arithmetic mean of the ratings of p's reviews, 0 when there are none.
Mean(p) ==
    IF ReviewsOf(p) = {} THEN Zero
    ELSE Frac(RatingSum(ReviewsOf(p)), Cardinality(ReviewsOf(p)))

\* C2: in every committed state, each product's rating is the mean of the
\* ratings of its existing reviews (0 when it has none) and its reviewCount is
\* their number.
C2_RatingIsMean ==
    \A p \in Products :
        /\ rating[p] = Mean(p)
        /\ reviewCount[p] = Cardinality(ReviewsOf(p))

\* C2's case: a createReview has just committed the second review of A, and
\* the two ratings differ.
C2_Witness ==
    \E c \in SeqCalls :
        /\ call[c].op = "createReview" /\ call[c].pc = "done" /\ call[c].result = "ok"
        /\ reviewCount["A"] = 2
        /\ rating["A"] = Frac(MinRating + MaxRating - 1, 2)

\* C9: no two review documents have the same user and the same product.
C9_OneReviewPerPair ==
    \A r1, r2 \in ReviewIds :
        (/\ reviews[r1] # NoReview
         /\ reviews[r1].user = reviews[r2].user
         /\ reviews[r1].product = reviews[r2].product) => r1 = r2

\* C9's case: every user has a review of A and a createReview is about to
\* insert another one.
C9_Witness ==
    /\ \A u \in Users : HasReview(u, "A")
    /\ \E c \in Calls : call[c].op = "createReview" /\ call[c].pc = "cr_insert"

\* C10: a step of a createReview whose user already has a review of the
\* product changes no review, no rating and no reviewCount, and its insert
\* ends the request with the duplicate key error (or, after a write conflict,
\* runs the callback again).
C10_DuplicateRejected ==
    [][\A c \in Calls :
          (/\ call[c].op = "createReview"
           /\ call'[c] # call[c]
           /\ HasReview(call[c].user, call[c].product)) =>
              /\ reviews' = reviews
              /\ rating' = rating
              /\ reviewCount' = reviewCount
              /\ (call[c].pc = "cr_insert" /\ call[c].rating \in MinRating..MaxRating) =>
                     \/ call'[c].pc = "done" /\ call'[c].result = "DuplicateKey"
                     \/ call'[c].pc = "cr_read"]_vars

\* C10's case: a createReview ended with the duplicate key error and the
\* user's review of the product is there.
C10_Witness ==
    \E c \in Calls :
        /\ call[c].op = "createReview" /\ call[c].pc = "done"
        /\ call[c].result = "DuplicateKey"
        /\ HasReview(call[c].user, call[c].product)

\* ------------------------------------------------------------------ stock adjustment claims
StockOps == {"updateStock", "staticUpdateStock", "docUpdateStock"}

\* C11: a stock adjustment by delta of an existing product with stock s is
\* answered insufficient-stock and leaves the stock at s when s + delta < 0,
\* and otherwise succeeds and leaves exactly s + delta; for a missing product
\* it is answered not-found and changes nothing.
C11_AdjustStockExact ==
    [][\A c \in SeqCalls :
          (Answered(c) /\ call'[c].op \in StockOps) =>
              LET p == call'[c].product
                  delta == call'[c].delta
              IN  IF p \notin Products
                  THEN /\ call'[c].result \in {"NotFound", "null"}
                       /\ stock' = stock
                  ELSE IF stock[p] + delta < 0
                  THEN /\ call'[c].result = "InsufficientStock"
                       /\ stock' = stock
                  ELSE /\ call'[c].result = "ok"
                       /\ stock' = [stock EXCEPT ![p] = @ + delta]]_vars

\* The service's adjustment by a negative delta has succeeded and emptied the
\* stock of the product.
C11_Witness ==
    /\ call["c1"].pc = "done"
    /\ call["c1"].op = "updateStock"
    /\ call["c1"].result = "ok"
    /\ call["c1"].delta < 0
    /\ stock["A"] = 0

\* ------------------------------------------------------------------ transaction claims
\* C12: every product read of createOrder (stock and price) is made inside the
\* transaction that inserts the order and decrements the stock: the
\* transaction is open when the read is made.
C12_ReadsInsideTransaction ==
    [][\A c \in Calls :
          (/\ call[c].op = "createOrder"
           /\ call[c].pc = "co_validate"
           /\ call'[c] # call[c]) => txn[c].active]_vars

\* The parts of the withTransaction contract that do not depend on the kind
\* of error: only the commit changes the store, and it applies all writes of
\* the callback; a callback that threw has left no open transaction; the
\* session is ended once when the call is answered.
WithTransactionFrame(c) ==
    /\ (call[c].pc # "wt_commit" /\ call'[c] # call[c]) =>
           /\ stock' = stock
           /\ call'[c].pc = "wt_commit" => call[c].fnEnd = "return" /\ call[c].todo = {}
    /\ (call[c].pc = "wt_commit" /\ call'[c] # call[c]) =>
           /\ stock' = [p \in Products |-> stock[p] + txn[c].inc[p]]
           /\ \A p \in Products : txn[c].inc[p] = QtySum(call[c].items, p)
           /\ call'[c].result = "ok"
    /\ call'[c].pc = "wt_catch" => txn'[c] = NoTxn
    /\ Answered(c) =>
           /\ call'[c].ended = 1
           /\ ~call'[c].session
           /\ txn'[c] = NoTxn
           /\ call'[c].result \in {"ok", "Error", "WriteConflict"}

\* C13 as stated: withTransaction commits and returns the result when the
\* callback returns; when the callback throws, the transaction is aborted,
\* none of its writes are visible and the error reaches the caller; the
\* session is released exactly once on both paths.
C13_WithTransaction ==
    [][\A c \in Calls :
          call[c].op = "withTransaction" =>
              /\ WithTransactionFrame(c)
              /\ (call[c].pc = "wt_catch" /\ call'[c] # call[c]) =>
                     /\ call'[c].pc = "wt_finally"
                     /\ call'[c].result = call[c].thrown]_vars

\* C13 amended: as stated, except that a transient transaction error (a
\* write conflict) thrown by the callback either reaches the caller or makes
\* withTransaction start a new transaction and invoke the callback again.
C13_WithTransactionRetried ==
    [][\A c \in Calls :
          call[c].op = "withTransaction" =>
              /\ WithTransactionFrame(c)
              /\ (call[c].pc = "wt_catch" /\ call'[c] # call[c]) =>
                     \/ /\ call'[c].pc = "wt_finally"
                        /\ call'[c].result = call[c].thrown
                     \/ /\ call[c].thrown = "WriteConflict"
                        /\ call'[c].pc = "wt_fn"
                        /\ call'[c].todo = 1..Len(call[c].items)
                        /\ txn'[c] = [NoTxn EXCEPT !.active = TRUE]]_vars

\* A callback that wrote two products and then threw has been answered with
\* its error: the stock is untouched and the session was ended once.
C13_Witness ==
    /\ call["c1"].pc = "done"
    /\ call["c1"].op = "withTransaction"
    /\ Len(call["c1"].items) = 2
    /\ call["c1"].result = "Error"
    /\ call["c1"].ended = 1
    /\ \A p \in Products : stock[p] = MaxStock

\* The change of product p's stock that the request of c asks for.
Effect(c, p) ==
    IF call[c].op = "createOrder"
    THEN 0 - QtySum(call[c].items, p)
    ELSE QtySum(call[c].items, p)

\* The store refuses every write the request of c has left to issue: each of
\* those products was written by another transaction that is open or that
\* committed after c's snapshot.
AllWritesConflict(c) ==
    /\ call[c].todo # {}
    /\ \A i \in call[c].todo :
           call[c].items[i].product \in LockedP(c) \cup txn[c].staleP

\* C14: a transaction that loses a race on a product commits none of its
\* writes and is answered with the write conflict or run again; a request is
\* answered with success only by the step that commits its whole effect, and
\* no other step of it changes the store.
C14_LoserReportsConflict ==
    [][\A c \in Calls :
          (call[c].op \in {"createOrder", "withTransaction"} /\ call'[c] # call[c]) =>
              /\ IF call'[c].result = "ok" /\ call[c].result # "ok"
                 THEN /\ \A p \in Products : stock'[p] = stock[p] + Effect(c, p)
                      /\ call[c].op = "createOrder" =>
                             /\ orders[call[c].oid] = NoOrder
                             /\ orders'[call[c].oid].items = call[c].items
                 ELSE stock' = stock /\ orders' = orders
              /\ (call[c].pc = "co_inc" /\ AllWritesConflict(c)) =>
                     /\ call'[c].pc = "done"
                     /\ call'[c].result = "WriteConflict"
                     /\ txn'[c] = NoTxn
              /\ (call[c].pc = "wt_fn" /\ AllWritesConflict(c)) =>
                     /\ call'[c].pc = "wt_catch"
                     /\ call'[c].thrown = "WriteConflict"
                     /\ txn'[c] = NoTxn
              /\ (call[c].pc = "wt_catch" /\ call[c].thrown = "WriteConflict") =>
                     \/ call'[c].pc = "wt_fn" /\ call'[c].result = IdleCall.result
                     \/ call'[c].pc = "wt_finally" /\ call'[c].result = "WriteConflict"]_vars

\* Two order creations raced on product A: one committed its order and its
\* decrement, the other was answered with the write conflict.
C14_Witness ==
    /\ call["c1"].pc = "done" /\ call["c1"].op = "createOrder"
    /\ call["c1"].result = "WriteConflict"
    /\ call["c2"].pc = "done" /\ call["c2"].op = "createOrder"
    /\ call["c2"].result = "ok"
    /\ stock["A"] = MaxStock - 1
    /\ Cardinality({o \in OrderIds : orders[o] # NoOrder}) = 1

\* ------------------------------------------------------------------ order update claims
OrderUpdateOps ==
    {"updateOrder", "adminOrderPut", "adminOrderStatus", "adminBulkStatus",
     "docUpdateStatus"}

\* C15: no step of an order update that is not a cancellation changes the
\* stock of any product, the update that turns the order delivered included.
C15_UpdateLeavesStock ==
    [][\A c \in SeqCalls :
          (/\ call'[c] # call[c]
           /\ call'[c].op \in OrderUpdateOps
           /\ call'[c].status # "cancelled") => stock' = stock]_vars

\* The orders that exist and are not cancelled.
OpenOrders == {o \in OrderIds : orders[o] # NoOrder /\ orders[o].status # "cancelled"}

\* C16: with order creations and cancellations only, the stock of every
\* product is its initial stock less the quantities of the orders that exist
\* and are not cancelled: a creation followed by the cancellation of that
\* order returns the stock of every product involved to its value before the
\* creation, and an order whose cancellation succeeded is cancelled.
C16_CreateCancelRoundTrip ==
    /\ \A p \in Products : stock[p] = MaxStock - QtyOfOrders(OpenOrders, p)
    /\ \A c \in SeqCalls :
           (call[c].pc = "done" /\ call[c].op = "cancelOrder" /\ call[c].result = "ok")
               => orders[call[c].oid].status = "cancelled"

\* An order of two units of A was created and then cancelled.
C16_Witness ==
    /\ call["c1"].pc = "done" /\ call["c1"].op = "cancelOrder"
    /\ call["c1"].result = "ok"
    /\ orders[call["c1"].oid].status = "cancelled"
    /\ QtySum(orders[call["c1"].oid].items, "A") = MaxQty
    /\ stock["A"] = MaxStock

\* ------------------------------------------------------------------ validation claims
\* Item i of the request of c fails the validation against the store as it is.
FailsValidation(c, i) ==
    LET item == call[c].items[i]
    IN  \/ item.product \notin Products
        \/ stock[item.product] < item.quantity

\* C17: the validation of createOrder writes nothing and opens no
\* transaction; a request is answered not-found or insufficient-stock from
\* the validation only, for an item that is missing or asks for more than the
\* current stock, so a request that fails its validation has persisted no
\* order and changed no stock.
C17_FailedValidationNoEffect ==
    [][\A c \in Calls :
          (call[c].op = "createOrder" /\ call'[c] # call[c]) =>
              /\ call[c].pc = "co_validate" =>
                     /\ stock' = stock
                     /\ orders' = orders
                     /\ txn'[c] = NoTxn
                     /\ IF Answered(c)
                        THEN \E i \in call[c].todo :
                                 /\ FailsValidation(c, i)
                                 /\ call'[c].result =
                                        IF call[c].items[i].product \notin Products
                                        THEN "NotFound" ELSE "InsufficientStock"
                        ELSE \E i \in call[c].todo : ~FailsValidation(c, i)
              /\ (Answered(c) /\ call'[c].result \in {"NotFound", "InsufficientStock"})
                     => call[c].pc = "co_validate"]_vars

\* A two-item request was answered not-found for its second item after its
\* first item had passed; no order exists and no stock has moved.
C17_Witness ==
    \E c \in Calls :
        /\ call[c].pc = "done" /\ call[c].op = "createOrder"
        /\ call[c].result = "NotFound"
        /\ Len(call[c].items) = 2 /\ call[c].todo = {2}
        /\ \A o \in OrderIds : orders[o] = NoOrder
        /\ \A p \in Products : stock[p] = MaxStock

\* ------------------------------------------------------------------ session claims
SessionOps == {"createReview", "updateReview", "deleteReview", "createOrder", "cancelOrder"}

CommitPcs == {"cr_commit", "ur_commit", "dr_commit", "co_commit", "ca_commit"}

\* C18: a request of the review service or of the order service holds one
\* transaction at a time and issues its product and stock writes on that
\* transaction's session: while the request holds a transaction every step
\* continues that same transaction, the writes stay in it until its commit,
\* which ends it, and no transaction is held when the request is answered.
C18_OneTransactionPerOperation ==
    [][\A c \in Calls :
          (call[c].op \in SessionOps /\ call'[c] # call[c]) =>
              /\ call[c].pc \notin CommitPcs =>
                     /\ stock' = stock /\ orders' = orders /\ reviews' = reviews
                     /\ rating' = rating /\ reviewCount' = reviewCount
              /\ call[c].pc \in CommitPcs => txn[c].active /\ txn'[c] = NoTxn
              /\ (txn[c].active /\ txn'[c].active) =>
                     /\ txn[c].snap => txn'[c].snap
                     /\ txn[c].lockP \subseteq txn'[c].lockP
                     /\ txn[c].lockO \subseteq txn'[c].lockO
                     /\ txn[c].lockR \subseteq txn'[c].lockR
                     /\ txn[c].lockK \subseteq txn'[c].lockK
              /\ (call'[c].pc \in CommitPcs /\ call[c].pc \notin CommitPcs) =>
                     /\ txn'[c].active
                     /\ call[c].op \in {"createOrder", "cancelOrder"} =>
                            \A i \in DOMAIN call[c].items :
                                call[c].items[i].product \in txn'[c].lockP
                     /\ call[c].op \in {"createReview", "deleteReview"} =>
                            call[c].product \in txn'[c].lockP \/ txn'[c].pput.kind = "write"
              /\ Answered(c) => txn'[c] = NoTxn]_vars

\* A createReview holds its transaction with the review insert and the
\* product update buffered in it while a cancelOrder has been started; the
\* store shows no review yet.
C18_Witness ==
    /\ call["c1"].op = "createReview" /\ call["c1"].pc = "cr_commit"
    /\ txn["c1"].rput.kind = "insert" /\ txn["c1"].pput.kind = "write"
    /\ call["c2"].op = "cancelOrder" /\ call["c2"].pc = "ca_inc"
    /\ \A r \in ReviewIds : reviews[r] = NoReview

C20_SkuUnique ==
    [][/\ \A i, j \in CatalogIds :
              (i # j /\ catalog'[i] # NoSku) => catalog'[i] # catalog'[j]
       /\ \A c \in Calls :
              (call[c].pc = "pc_insert" /\ call'[c] # call[c]) =>
                  IF \E i \in CatalogIds : catalog[i] = call[c].sku
                  THEN call'[c].result = "DuplicateKey" /\ catalog' = catalog
                  ELSE /\ call'[c].result = "ok"
                       /\ \E i \in CatalogIds :
                              /\ catalog[i] = NoSku
                              /\ catalog' = [catalog EXCEPT ![i] = call[c].sku]]_vars

\* Two creations read the same count and generated the same SKU: one stored
\* its product, the other was answered with the duplicate key error.
C20_Witness ==
    /\ call["c1"].pc = "done" /\ call["c1"].op = "createProduct"
    /\ call["c1"].result = "DuplicateKey"
    /\ call["c2"].pc = "done" /\ call["c2"].op = "createProduct"
    /\ call["c2"].result = "ok"
    /\ call["c1"].sku = call["c2"].sku
    /\ Cardinality({i \in CatalogIds : catalog[i] = call["c1"].sku}) = 1

\* ------------------------------------------------------------------ price claims
\* C21: the validation of createOrder replaces the unit price of the item it
\* reads by the product's price at that read, the later steps keep it, and
\* the order is stored with it: no line item of a created order carries the
\* price the caller sent.
C21_PriceSnapshot ==
    [][\A c \in SeqCalls :
          (call[c].op = "createOrder" /\ call'[c] # call[c]) =>
              /\ (call[c].pc = "co_validate" /\ call'[c].pc # "done") =>
                     \E i \in call[c].todo :
                         /\ call'[c].todo = call[c].todo \ {i}
                         /\ call'[c].items =
                                [call[c].items EXCEPT
                                    ![i].price = price[call[c].items[i].product]]
              /\ call[c].pc \in {"co_create", "co_inc"} =>
                     call'[c].items = call[c].items
              /\ call[c].pc = "co_commit" =>
                     /\ orders'[call[c].oid].items = call[c].items
                     /\ \A i \in DOMAIN call[c].items :
                            /\ call[c].items[i].price = price[call[c].items[i].product]
                            /\ call[c].items[i].price # CallerPrice]_vars

\* An order was created after the price of A had been changed: its line item
\* carries the changed price, not the caller's.
C21_Witness ==
    /\ call["c1"].pc = "done" /\ call["c1"].op = "createOrder"
    /\ call["c1"].result = "ok"
    /\ price["A"] # 1
    /\ orders[call["c1"].oid].items[1].price = price["A"]

\* ------------------------------------------------------------------ concurrent review claims
\* C22: whenever no review request is in flight, whatever the interleaving of
\* the concurrent createReview, updateReview and deleteReview transactions
\* before, the rating and the reviewCount of each product are the mean and
\* the number of the reviews that exist.
C22_NoLostRatingUpdate ==
    (\A c \in Calls : call[c].pc \in {"idle", "done"}) =>
        \A p \in Products :
            /\ rating[p] = Mean(p)
            /\ reviewCount[p] = Cardinality(ReviewsOf(p))

\* Two createReview transactions ran at the same time on product A: one has
\* committed, and the other is about to update the product from the rating
\* and count it read before that commit.
C22_Witness ==
    /\ call["c1"].pc = "done" /\ call["c1"].op = "createReview"
    /\ call["c1"].result = "ok"
    /\ call["c2"].pc = "cr_product" /\ call["c2"].op = "createReview"
    /\ call["c2"].prodCount # reviewCount["A"]
    /\ "A" \in txn["c2"].staleP

\* ------------------------------------------------------------------ concurrent stock claims
\* C23: no stock adjustment is lost: the step that answers an updateStock
\* with success leaves the stock of its product at the stored stock plus the
\* delta of the request, so that the final stock is the initial stock plus
\* the deltas of all requests that succeeded.
C23_NoLostAdjustment ==
    [][\A c \in Calls :
          (/\ Answered(c)
           /\ call'[c].op = "updateStock"
           /\ call'[c].result = "ok") =>
              stock'[call[c].product] = stock[call[c].product] + call[c].delta]_vars

\* ------------------------------------------------------------------ review update claims
\* C24: no step of updateReview changes a product's reviewCount; only its
\* commit changes reviews or ratings; the commit of an update that leaves the
\* review's rating as it was leaves every product's rating as it was, and the
\* commit of one that changes it stores the review's new rating and the
\* product's new rating in the same step.
C24_UpdateReviewFrame ==
    [][\A c \in SeqCalls :
          (call[c].op = "updateReview" /\ call'[c] # call[c]) =>
              /\ reviewCount' = reviewCount
              /\ call[c].pc # "ur_commit" => (rating' = rating /\ reviews' = reviews)
              /\ call[c].pc = "ur_commit" =>
                     LET rid == call[c].rid
                         p == reviews[rid].product
                     IN  /\ \A r \in ReviewIds \ {rid} : reviews'[r] = reviews[r]
                         /\ \A q \in Products \ {p} : rating'[q] = rating[q]
                         /\ IF reviews'[rid].rating = reviews[rid].rating
                            THEN rating' = rating
                            ELSE /\ reviews'[rid].rating = call[c].rating
                                 /\ rating'[p] =
                                        FracOver(FracPlus(FracPlus(
                                            FracTimes(rating[p], reviewCount[p]),
                                            0 - reviews[rid].rating), call[c].rating),
                                            reviewCount[p])]_vars

\* An updateReview with a rating the review schema rejects was answered with
\* the validation error after its product update had passed: two reviews
\* exist and the product's rating is still their mean.
C24_Witness ==
    /\ call["c1"].pc = "done" /\ call["c1"].op = "updateReview"
    /\ call["c1"].rating = BadRating
    /\ call["c1"].result = "ValidationError"
    /\ reviewCount["A"] = 2
    /\ rating["A"] = Mean("A")

\* ------------------------------------------------------------------ inventory claims
\* The units of p on hand and in the orders that are not cancelled.
OnHandAndHeld(p) == stock[p] + QtyOfOrders(OpenOrders, p)

\* C25: for each product, the stock plus the quantity held in the orders that
\* are not cancelled changes only by manual stock adjustments: no step of an
\* order creation, update, status change or cancellation changes it.
AdjustmentOps == StockOps \cup {"adminUpdateStock", "adminBulkUpdateStock", "adminProductPut"}

C25_InventoryConserved ==
    [][\A c \in SeqCalls :
          (call'[c] # call[c] /\ call'[c].op \notin AdjustmentOps) =>
              \A p \in Products : OnHandAndHeld(p)' = OnHandAndHeld(p)]_vars

\* C26: under concurrent creations and cancellations no quantity of an order
\* is put back twice: for each product the stock plus the quantity held in
\* the orders that are not cancelled never exceeds the initial stock.
C26_RestoredAtMostOnce ==
    \A p \in Products : stock[p] + QtyOfOrders(OpenOrders, p) <= MaxStock

\* C27: with one request at a time, a createOrder that commits asked, for
\* each product, for no more in all its line items together than the stock
\* on hand, and leaves no stock negative.
C27_RepeatedProductWithinStock ==
    [][\A c \in SeqCalls :
          (call[c].pc = "co_commit" /\ call'[c].result = "ok") =>
              \A p \in Products :
                  /\ QtySum(call[c].items, p) <= stock[p]
                  /\ stock'[p] >= 0]_vars

\* ------------------------------------------------------------------ order service error claims
OrderServiceOps == {"createOrder", "updateOrder", "cancelOrder"}

\* C28: a step of createOrder, updateOrder or cancelOrder that answers its
\* caller with an error leaves the orders and every stock as they are, and so
\* does every step of the request before its answer: a request answered with
\* an error has committed nothing.
C28_ErrorMeansNoWrites ==
    [][\A c \in SeqCalls :
          (/\ call'[c].op \in OrderServiceOps
           /\ call'[c] # call[c]
           /\ (~Answered(c) \/ call'[c].result \notin {"ok", "null"})) =>
              (orders' = orders /\ stock' = stock)]_vars

\* C29: a request of the order service calls commitTransaction and
\* abortTransaction at most once in all for the transaction it started, and
\* when it is answered it has called one of them exactly once for a started
\* transaction, none without one, and endSession exactly once.
C29_SessionProtocol ==
    \A c \in SeqCalls :
        call[c].op \in OrderServiceOps =>
            /\ call[c].starts <= 1
            /\ call[c].commits + call[c].aborts <= call[c].starts
            /\ call[c].pc # "done" => (call[c].session /\ call[c].ended = 0)
            /\ call[c].pc = "done" =>
                   /\ call[c].commits + call[c].aborts = call[c].starts
                   /\ ~call[c].session
                   /\ call[c].ended = 1

\* ------------------------------------------------------------------ sequential SKU claims
\* C30: with one request at a time, the SKU a product creation has generated
\* is held by no product of the collection, and no creation is answered with
\* the duplicate key error.
C30_GeneratedSkuFree ==
    \A c \in SeqCalls :
        call[c].op = "createProduct" =>
            /\ call[c].pc = "pc_insert" =>
                   \A i \in CatalogIds : catalog[i] # call[c].sku
            /\ call[c].pc = "done" => call[c].result # "DuplicateKey"

====
